---- MODULE Spec2Model ----
(***************************************************************************)
(* Model of the WUUF analytics backend: the Google-Sheets loader, the      *)
(* three-table join, and the module-level result cache of                  *)
(* shared/data_loader.py, as driven by the FastAPI handlers of apps/api.   *)
(*                                                                         *)
(* Conventions.                                                            *)
(*   - A text cell is a sequence of one-character strings; "" is << >>.    *)
(*   - NaN is the missing value of a text column, NaT of a date column.    *)
(*   - A DataFrame is [cols |-> set of column names, rows |-> sequence of  *)
(*     records over cols].                                                 *)
(*   - A Python exception message is a sequence of tokens (the pieces of   *)
(*     the f-string that builds it); str(e) = "" is << >>.                 *)
(*   - Python None is the integer None (object ids and times are >= 0).    *)
(***************************************************************************)
EXTENDS Integers, Sequences, FiniteSets, TLC

VARIABLES
    now,               \* datetime.now(), in minutes
    cached_data,       \* _cached_data: None or the id of a DataFrame object
    cache_timestamp,   \* _cache_timestamp: None or a time
    heap,              \* live DataFrame objects: id -> DataFrame
    running,           \* the call that occupies the event loop, or None
    pc,                \* per call: position in load_transactions / get_cache_info
    args,              \* per call: [op, force_refresh]
    frame,             \* per call: the locals of load_transactions
    ret,               \* per call: what the call returned or raised
    committed,         \* history: the <<data, timestamp>> pair of the last completed refresh
    jin,               \* inputs of a direct join_transactions call
    jout,              \* its result
    skuv,              \* a direct extract_collection_from_sku call: SKU and result
    txns,              \* a Transactions frame handed to apply_filters / an aggregation
    fout,              \* an apply_filters call: criteria, objects, result
    agg                \* an aggregation call: function name and result

vars == <<now, cached_data, cache_timestamp, heap, running, pc, args,
          frame, ret, committed, jin, jout, skuv, txns, fout, agg>>

cacheVars == <<now, cached_data, cache_timestamp, heap, running, pc,
               args, frame, ret, committed>>

joinVars == <<jin, jout>>

pureVars == <<skuv, txns, fout, agg>>

-----------------------------------------------------------------------------
(* Bounds of the model *)

MaxTime == 5

NumCalls == 2

MaxJoinRows == 2

(* Program constants *)

CACHE_DURATION_MINUTES == 5

None == -1

NaN == <<"NaN">>

NaT == -2147483647

Calls == 1..NumCalls

-----------------------------------------------------------------------------
(* Text helpers *)

Digits == <<"0", "1", "2", "3", "4", "5", "6", "7", "8", "9">>

IsDigit(c) == \E i \in 1..10 : Digits[i] = c

DigitVal(c) == (CHOOSE i \in 1..10 : Digits[i] = c) - 1

RECURSIVE ParseNat(_)
ParseNat(s) ==
    IF s = << >> THEN 0
    ELSE 10 * ParseNat(SubSeq(s, 1, Len(s) - 1)) + DigitVal(s[Len(s)])

AllDigits(s) == \A i \in 1..Len(s) : IsDigit(s[i])

RECURSIVE FlattenSeq(_)
FlattenSeq(ss) ==
    IF ss = << >> THEN << >> ELSE Head(ss) \o FlattenSeq(Tail(ss))

\* str.split(sep): the pieces of s between occurrences of the character sep.
RECURSIVE SplitAcc(_, _, _)
SplitAcc(s, sep, cur) ==
    IF s = << >> THEN <<cur>>
    ELSE IF Head(s) = sep THEN <<cur>> \o SplitAcc(Tail(s), sep, << >>)
    ELSE SplitAcc(Tail(s), sep, Append(cur, Head(s)))

Split(s, sep) == SplitAcc(s, sep, << >>)

\* sep.join(parts)
RECURSIVE JoinWith(_, _)
JoinWith(parts, sep) ==
    IF parts = << >> THEN << >>
    ELSE IF Len(parts) = 1 THEN Head(parts)
    ELSE Head(parts) \o sep \o JoinWith(Tail(parts), sep)

-----------------------------------------------------------------------------
(* pandas helpers used by join_transactions *)

\* pd.to_numeric(x, errors='coerce') on one cell: << n >> or << >> (NaN).
to_numeric(x) ==
    IF x # NaN /\ x # << >> /\ AllDigits(x) THEN <<ParseNat(x)>>
    ELSE IF x # NaN /\ Len(x) >= 2 /\ Head(x) = "-" /\ AllDigits(Tail(x))
         THEN <<0 - ParseNat(Tail(x))>>
    ELSE << >>

fillna(x, d) == IF x = << >> THEN d ELSE x[1]

IsLeap(y) == (y % 4 = 0 /\ y % 100 # 0) \/ y % 400 = 0

DaysIn(y, m) ==
    IF m \in {4, 6, 9, 11} THEN 30
    ELSE IF m = 2
         THEN (IF IsLeap(y) THEN 29 ELSE 28)
    ELSE 31

\* Leap days of the years before y (proleptic Gregorian).
LeapsBefore(y) == ((y - 1) \div 4) - ((y - 1) \div 100) + ((y - 1) \div 400)

RECURSIVE DaysBeforeMonth(_, _)
DaysBeforeMonth(y, m) ==
    IF m <= 1 THEN 0 ELSE DaysBeforeMonth(y, m - 1) + DaysIn(y, m - 1)

EpochYear == 2000

SecondsPerDay == 86400

\* A datetime is its number of seconds since 2000-01-01 00:00:00.
MkDate(y, m, d) ==
    (365 * (y - EpochYear) + (LeapsBefore(y) - LeapsBefore(EpochYear))
       + DaysBeforeMonth(y, m) + (d - 1)) * SecondsPerDay

\* pd.to_datetime(x, errors='coerce') on one cell holding YYYY-MM-DD text.
to_datetime(x) ==
    IF x = NaN \/ Len(x) # 10 THEN NaT
    ELSE IF ~(x[5] = "-" /\ x[8] = "-" /\ AllDigits(SubSeq(x, 1, 4))
              /\ AllDigits(SubSeq(x, 6, 7)) /\ AllDigits(SubSeq(x, 9, 10)))
         THEN NaT
    ELSE LET y == ParseNat(SubSeq(x, 1, 4))
             m == ParseNat(SubSeq(x, 6, 7))
             d == ParseNat(SubSeq(x, 9, 10))
         IN IF m \in 1..12 /\ d \in 1..DaysIn(y, m) THEN MkDate(y, m, d) ELSE NaT

\* extract_collection_from_sku
extract_collection_from_sku(sku) ==
    IF sku = NaN \/ sku = << >> THEN << >>
    ELSE IF Len(sku) >= 8 /\ SubSeq(sku, 1, 5) = <<"W", "U", "U", "F", "-">>
            /\ AllDigits(SubSeq(sku, 6, 8))
         THEN SubSeq(sku, 1, 8)
    ELSE LET parts == Split(sku, "-")
         IN IF Len(parts) >= 2 THEN parts[1] \o <<"-">> \o parts[2] ELSE sku

\* how='inner': a left row without a match yields no row.
InnerMergeRow(l, right, key) ==
    LET matches == SelectSeq(right.rows, LAMBDA r : r[key] = l[key])
        extra   == right.cols \ {key}
    IN [j \in 1..Len(matches) |-> l @@ [c \in extra |-> matches[j][c]]]

\* One row of a how='left' merge on `key`: the left row paired with every
\* right row of equal key, or with NaN in the right-hand columns when no
\* right row matches.
LeftMergeRow(l, right, key) ==
    LET matches == SelectSeq(right.rows, LAMBDA r : r[key] = l[key])
        extra   == right.cols \ {key}
    IN IF matches = << >>
       THEN << l @@ [c \in extra |-> NaN] >>
       ELSE [j \in 1..Len(matches) |-> l @@ [c \in extra |-> matches[j][c]]]

\* A lookup merge: each left row takes the first matching right row only.
merge_lookup(left, right, key) ==
    [cols |-> left.cols \cup right.cols,
     rows |-> [i \in 1..Len(left.rows) |-> LeftMergeRow(left.rows[i], right, key)[1]]]

\* DataFrame.merge(right, on=key, how='left'); the frames share no column
\* but the key.
merge(left, right, key) ==
    [cols |-> left.cols \cup right.cols,
     rows |-> FlattenSeq([i \in 1..Len(left.rows) |->
                             LeftMergeRow(left.rows[i], right, key)])]

\* df[columns]
Project(df, columns) ==
    [cols |-> columns,
     rows |-> [i \in 1..Len(df.rows) |-> [c \in columns |-> df.rows[i][c]]]]

\* transactions['Collection'] = transactions['SKU'].apply(extract_collection_from_sku)
AddCollection(df) ==
    [cols |-> df.cols \cup {"Collection"},
     rows |-> [i \in 1..Len(df.rows) |->
                 [c \in df.cols \cup {"Collection"} |->
                     IF c = "Collection"
                     THEN extract_collection_from_sku(df.rows[i]["SKU"])
                     ELSE df.rows[i][c]]]]

\* transactions['Order_Date'] = pd.to_datetime(transactions['Order_Date'], errors='coerce')
ParseOrderDate(df) ==
    [cols |-> df.cols,
     rows |-> [i \in 1..Len(df.rows) |->
                 [df.rows[i] EXCEPT !["Order_Date"] = to_datetime(@)]]]

numeric_columns == {"Qty", "Unit_Price_THB", "Line_Subtotal", "COGS_THB", "Line_Profit"}

column_order == {"Order_Date", "Order_ID", "Channel", "Customer_Name", "Instagram",
                 "Phone", "SKU", "Collection", "Product_Name", "Dog_Breed",
                 "Shirt_Color", "Size", "Qty", "Unit_Price_THB", "Line_Subtotal",
                 "COGS_THB", "Line_Profit"}

\* A coercion that drops the rows holding a cell that is not numeric.
CoerceNumericDropna(df) ==
    [cols |-> df.cols,
     rows |-> SelectSeq([i \in 1..Len(df.rows) |->
                           [c \in df.cols |->
                               IF c \in numeric_columns
                               THEN fillna(to_numeric(df.rows[i][c]), 0)
                               ELSE df.rows[i][c]]],
                        LAMBDA row : \A c \in numeric_columns \cap df.cols :
                                        row[c] # 0)]

CoerceNumeric(df) ==
    [cols |-> df.cols,
     rows |-> [i \in 1..Len(df.rows) |->
                 [c \in df.cols |->
                     IF c \in numeric_columns
                     THEN fillna(to_numeric(df.rows[i][c]), 0)
                     ELSE df.rows[i][c]]]]

\* The columns join_transactions indexes without a guard: a frame lacking one
\* makes pandas raise KeyError.
JoinKeyError(orders_df, order_items_df, products_df) ==
    IF "Order_ID" \notin order_items_df.cols \/ "Order_ID" \notin orders_df.cols
    THEN <<"'Order_ID'">>
    ELSE IF ~({"SKU", "Product_Name", "Dog_Breed"} \subseteq products_df.cols)
    THEN <<"not in index">>
    ELSE IF "SKU" \notin order_items_df.cols \cup orders_df.cols
    THEN <<"'SKU'">>
    ELSE IF "Order_Date" \notin order_items_df.cols \cup orders_df.cols
    THEN <<"'Order_Date'">>
    ELSE << >>

\* join_transactions: [ok |-> TRUE, df |-> DataFrame] or [ok |-> FALSE, msg |-> str(e)]
join_transactions(orders_df, order_items_df, products_df) ==
    IF JoinKeyError(orders_df, order_items_df, products_df) # << >>
    THEN [ok |-> FALSE, msg |-> JoinKeyError(orders_df, order_items_df, products_df)]
    ELSE
    LET t1 == merge(order_items_df, orders_df, "Order_ID")
        t2 == merge(t1, Project(products_df, {"SKU", "Product_Name", "Dog_Breed"}), "SKU")
        t3 == AddCollection(t2)
        t4 == ParseOrderDate(t3)
        t5 == CoerceNumeric(t4)
    IN [ok |-> TRUE, df |-> Project(t5, column_order \cap t5.cols)]

-----------------------------------------------------------------------------
(* The spreadsheet on Google's side *)

T_O1 == <<"O", "1">>

T_O2 == <<"O", "2">>

T_O3 == <<"O", "3">>

T_SKU1 == <<"W", "U", "U", "F", "-", "0", "0", "1", "-", "M">>

T_SKU2 == <<"X", "-", "Y", "-", "Z">>

T_SKU3 == <<"P", "L", "A", "I", "N">>

T_DAY1 == <<"2", "0", "2", "4", "-", "0", "1", "-", "0", "5">>

T_DAY2 == <<"2", "0", "2", "4", "-", "0", "2", "-", "3", "0">>

T_BADDAY == <<"n", "/", "a">>

OrderRow(id, day, channel, name) ==
    [Order_ID |-> id, Order_Date |-> day, Channel |-> channel, Customer_Name |-> name]

ItemRow(id, sku, size, qty, price) ==
    [Order_ID |-> id, SKU |-> sku, Shirt_Color |-> <<"W", "H">>, Size |-> size,
     Qty |-> qty, Unit_Price_THB |-> price, Line_Subtotal |-> price,
     COGS_THB |-> <<"1">>, Line_Profit |-> <<"1">>]

ProductRow(sku, name, breed) ==
    [SKU |-> sku, Product_Name |-> name, Dog_Breed |-> breed]

OrderCols == {"Order_ID", "Order_Date", "Channel", "Customer_Name"}

ItemCols == {"Order_ID", "SKU", "Shirt_Color", "Size", "Qty", "Unit_Price_THB",
             "Line_Subtotal", "COGS_THB", "Line_Profit"}

ProductCols == {"SKU", "Product_Name", "Dog_Breed"}

Worksheet(title, header, records) ==
    [title |-> title, header |-> header, records |-> records]

WsOrders ==
    Worksheet("Orders", OrderCols,
              << OrderRow(T_O1, T_DAY1, <<"I", "G">>, <<"A", "n", "n">>),
                 OrderRow(<< >>, << >>, << >>, << >>) >>)

WsItems1 ==
    Worksheet("Order_Items", ItemCols,
              << ItemRow(T_O1, T_SKU1, <<"M">>, <<"2">>, <<"5", "0">>) >>)

WsItems2 ==
    Worksheet("Order_Items", ItemCols,
              << ItemRow(T_O3, T_SKU2, <<"L">>, <<"x">>, << >>),
                 ItemRow(T_O1, << >>, << >>, << >>, << >>) >>)

WsProducts ==
    Worksheet("Products", ProductCols,
              << ProductRow(T_SKU1, <<"T", "e", "e">>, <<"P", "u", "g">>) >>)

WsProductsNoBreed ==
    Worksheet("Products", {"SKU", "Product_Name"},
              << [SKU |-> T_SKU1, Product_Name |-> <<"T", "e", "e">>] >>)

WsReadme == Worksheet("Readme", {}, << >>)

\* The states the document is edited into over time: a good one, a good one
\* with another line item, one whose Order_Items tab was renamed away, one
\* whose Products tab lost a column.
Spreadsheets ==
    << <<WsOrders, WsItems1, WsProducts>>,
       <<WsOrders, WsItems2, WsProducts>>,
       <<WsOrders, WsReadme, WsProducts>>,
       <<WsOrders, WsItems1, WsProductsNoBreed>> >>

NumSpreadsheets == Len(Spreadsheets)

\* str(e) of an exception raised by gspread / the network layer itself
RawErrors == {<< >>, <<"APIError">>}

\* How one remote call ends: it succeeds or it raises a gspread/network error.
Outcomes == {[ok |-> TRUE, msg |-> << >>]} \cup {[ok |-> FALSE, msg |-> m] : m \in RawErrors}

Titles(sheet) == [i \in 1..Len(sheet) |-> <<sheet[i].title>>]

HasWorksheet(sheet, name) == \E i \in 1..Len(sheet) : sheet[i].title = name

WorksheetOf(sheet, name) == sheet[CHOOSE i \in 1..Len(sheet) : sheet[i].title = name]

KeyColumn(sheet_name) == IF sheet_name = "Orders" THEN "Order_ID" ELSE "SKU"

\* pd.DataFrame(worksheet.get_all_records()): no records, no columns
DataFrameOf(ws) ==
    [cols |-> IF ws.records = << >> THEN {} ELSE ws.header, rows |-> ws.records]

\* load_sheet_to_dataframe(sheet, sheet_name), `net` being how the remote
\* calls of this load end: [kind |-> "ok", df], [kind |-> "ValueError", msg]
\* or [kind |-> "Exception", msg].
load_sheet_to_dataframe(sheet, sheet_name, net) ==
    IF ~net.ok
    THEN [kind |-> "Exception",
          msg |-> <<"Error loading worksheet '", sheet_name, "': ">> \o net.msg]
    ELSE IF ~HasWorksheet(sheet, sheet_name)
    THEN [kind |-> "ValueError",
          msg |-> <<"Worksheet '", sheet_name, "' not found in the Google Sheet">>]
    ELSE LET df  == DataFrameOf(WorksheetOf(sheet, sheet_name))
             key == KeyColumn(sheet_name)
         IN IF key \notin df.cols
            THEN [kind |-> "Exception",
                  msg |-> <<"Error loading worksheet '", sheet_name, "': ", key>>]
            ELSE [kind |-> "ok",
                  df |-> [cols |-> df.cols,
                          rows |-> SelectSeq(df.rows,
                                     LAMBDA r : r[key] # NaN /\ r[key] # << >>)]]

-----------------------------------------------------------------------------
(* Objects: the joined DataFrames live in a heap and are held by reference *)

NoDF == [cols |-> {}, rows |-> << >>]

EmptyFrame == [orders_df |-> NoDF, order_items_df |-> NoDF, products_df |-> NoDF,
               transactions |-> None, exc |-> << >>]

\* What a call gave its caller: kind is "df", "raise" or "info"; via names the
\* return statement that produced it ("hit": line 185, "fresh": line 246,
\* "stale": line 252, "raise": line 256, "info": get_cache_info).
NoReturn == [kind |-> "none", via |-> "none", ref |-> None, msg |-> << >>]

\* The references held by the module global, by the locals of the calls and
\* by the values handed to the callers.
Live(data, fr, rt) ==
    ({data} \cup {fr[r].transactions : r \in Calls} \cup {rt[r].ref : r \in Calls})
        \ {None}

\* Reference counting: an object nothing refers to is gone.
Collect(h, live) == [o \in DOMAIN h \cap live |-> h[o]]

\* The identity of the DataFrame join_transactions constructs: an address no
\* live object has.
NewId(h) ==
    CHOOSE o \in (NumCalls + 1)..(2 * NumCalls + 1) :
        /\ o \notin DOMAIN h
        /\ \A q \in (NumCalls + 1)..(o - 1) : q \in DOMAIN h

\* The object itself handed out instead of a copy.
AliasRef(r, o) == o

\* h[o].copy() evaluated in call r: the reference the caller gets (a new
\* object, at the address kept for the value call r returns).
CopyRef(r, o) == r

CopyHeap(h, r, o) == (CopyRef(r, o) :> h[o]) @@ h

-----------------------------------------------------------------------------
(* The event loop: every handler is `async def` and calls the loader        *)
(* synchronously, so a handler runs from its first line to its return       *)
(* before the loop starts another one.                                      *)

\* Handlers run in a thread pool (plain `def` handlers): a call starts at once.
LoopFreeThreaded == TRUE

LoopFree == running = None

NoArgs == [op |-> "none", force_refresh |-> FALSE]

Ops == {[op |-> "load", force_refresh |-> FALSE],
        [op |-> "load", force_refresh |-> TRUE],
        [op |-> "info", force_refresh |-> FALSE]}

\* A client sends a request: the call waits for the event loop.
Call(r) ==
    /\ pc[r] = "idle"
    /\ \E a \in Ops : args' = [args EXCEPT ![r] = a]
    /\ pc' = [pc EXCEPT ![r] = "pending"]
    /\ UNCHANGED <<now, cached_data, cache_timestamp, heap, running,
                   frame, ret, committed, joinVars, pureVars>>

Start(r) ==
    /\ pc[r] = "pending"
    /\ LoopFree
    /\ running' = r
    /\ pc' = [pc EXCEPT ![r] = IF args[r].op = "load" THEN "check" ELSE "info"]
    /\ UNCHANGED <<now, cached_data, cache_timestamp, heap, args,
                   frame, ret, committed, joinVars, pureVars>>

\* The call returns `value` (its locals die with it).
Return(r, value, h) ==
    /\ pc' = [pc EXCEPT ![r] = "done"]
    /\ ret' = [ret EXCEPT ![r] = value]
    /\ frame' = [frame EXCEPT ![r] = EmptyFrame]
    /\ running' = IF running = r THEN None ELSE running
    /\ heap' = Collect(h, Live(cached_data', frame', ret'))

\* The call goes on to `next` with local `name` bound to `value`.
Goto(r, next, fr, h) ==
    /\ pc' = [pc EXCEPT ![r] = next]
    /\ frame' = [frame EXCEPT ![r] = fr]
    /\ heap' = Collect(h, Live(cached_data', frame', ret))
    /\ UNCHANGED <<running, ret>>

\* raise Exception(msg) inside the outer try of load_transactions: the handler
\* at line 248 reads nothing of the locals but the exception.
Raise(r, msg) ==
    Goto(r, "except", [EmptyFrame EXCEPT !.exc = msg], heap)

-----------------------------------------------------------------------------
(* load_transactions *)

NoStamp == << >>

\* datetime.isoformat(), of a time in minutes: hours and minutes
isoformat(t) == <<t \div 60, t % 60>>

\* timedelta.total_seconds(), of a difference in minutes
total_seconds(d) == d * 60

\* The time-to-live taken in seconds instead of minutes.
CacheValidSeconds(force_refresh, data, stamp, t) ==
    /\ ~force_refresh
    /\ data # None
    /\ stamp # None
    /\ total_seconds(t - stamp) < CACHE_DURATION_MINUTES

\* force_refresh not consulted.
CacheValidIgnoreForce(force_refresh, data, stamp, t) ==
    /\ data # None
    /\ stamp # None
    /\ t - stamp < CACHE_DURATION_MINUTES

\* The cache is valid: lines 182-184.
\* A snapshot that never expires.
CacheValidForever(force_refresh, data, stamp, t) ==
    /\ ~force_refresh
    /\ data # None
    /\ stamp # None

CacheValid(force_refresh, data, stamp, t) ==
    /\ ~force_refresh
    /\ data # None
    /\ stamp # None
    /\ t - stamp < CACHE_DURATION_MINUTES

CheckCache(r) ==
    /\ pc[r] = "check"
    /\ UNCHANGED <<now, cached_data, cache_timestamp, args, committed, joinVars, pureVars>>
    /\ IF CacheValid(args[r].force_refresh, cached_data, cache_timestamp, now)
       THEN Return(r, [kind |-> "df", via |-> "hit", ref |-> CopyRef(r, cached_data),
                       msg |-> << >>],
                   CopyHeap(heap, r, cached_data))
       ELSE Goto(r, "client", frame[r], heap)

\* Step 1: get_google_sheets_client()
ClientErrors ==
    {<<"Service account credentials file not found. Error: ",
       "Service account file not found: ", "creds_file">>,
     <<"Invalid service account credentials format. Error: ",
       "Invalid GOOGLE_SERVICE_ACCOUNT_JSON format">>}
    \cup {<<"Failed to authenticate with Google Sheets. Error: ">> \o m : m \in RawErrors}

GetClient(r) ==
    /\ pc[r] = "client"
    /\ UNCHANGED <<now, cached_data, cache_timestamp, args, committed, joinVars, pureVars>>
    /\ \/ Goto(r, "open", frame[r], heap)
       \/ \E m \in ClientErrors : Raise(r, m)

\* Step 2: client.open_by_key(sheet_id)
OpenErrors ==
    {<<"Spreadsheet not found with ID: ", "sheet_id",
       ". Make sure the sheet is shared with the service account">>}
    \cup {<<"Google Sheets API error: ">> \o m
            \o <<". Check if the sheet is shared with the service account.">> : m \in RawErrors}
    \cup {<<"Failed to open spreadsheet: ">> \o m : m \in RawErrors}

OpenSheet(r) ==
    /\ pc[r] = "open"
    /\ UNCHANGED <<now, cached_data, cache_timestamp, args, committed, joinVars, pureVars>>
    /\ \/ Goto(r, "Orders", frame[r], heap)
       \/ \E m \in OpenErrors : Raise(r, m)

\* Step 3: the three worksheets, in this order.
TableOrder == <<"Orders", "Order_Items", "Products">>

LocalOf(name) ==
    IF name = "Orders" THEN "orders_df"
    ELSE IF name = "Order_Items" THEN "order_items_df" ELSE "products_df"

AfterTable(name) ==
    IF name = "Orders" THEN "Order_Items"
    ELSE IF name = "Order_Items" THEN "Products" ELSE "join"

\* The message of the exception that leaves one `try: load_sheet_to_dataframe`
\* block whose load ended in `res`; `listing` is how sheet.worksheets() ends.
TableError(sheet, name, res, listing) ==
    IF res.kind = "ValueError"
    THEN IF listing.ok
         THEN <<"Sheet '", name, "' not found. Available sheets: ">>
                  \o JoinWith(Titles(sheet), <<", ">>)
                  \o <<". Sheet names are case-sensitive!">>
         ELSE listing.msg
    ELSE <<"Error loading ", name, " sheet: ">> \o res.msg

\* The spreadsheet is edited by other people at any time: each load reads the
\* document as it is at that moment.
LoadTable(r, name) ==
    /\ pc[r] = name
    /\ UNCHANGED <<now, cached_data, cache_timestamp, args, committed, joinVars, pureVars>>
    /\ \E v \in 1..NumSpreadsheets, net \in Outcomes, listing \in Outcomes :
         LET res == load_sheet_to_dataframe(Spreadsheets[v], name, net)
         IN IF res.kind = "ok"
            THEN /\ listing.ok
                 /\ Goto(r, AfterTable(name),
                         [frame[r] EXCEPT ![LocalOf(name)] = res.df], heap)
            ELSE /\ (res.kind # "ValueError" => listing.ok)
                 /\ Raise(r, TableError(Spreadsheets[v], name, res, listing))

\* Step 4: join_transactions (the raw frames are not read after it)
Join(r) ==
    /\ pc[r] = "join"
    /\ UNCHANGED <<now, cached_data, cache_timestamp, args, committed, joinVars, pureVars>>
    /\ LET res == join_transactions(frame[r].orders_df, frame[r].order_items_df,
                                    frame[r].products_df)
       IN IF res.ok
          THEN Goto(r, "set_data", [EmptyFrame EXCEPT !.transactions = NewId(heap)],
                    (NewId(heap) :> res.df) @@ heap)
          ELSE Raise(r, <<"Error joining data tables: ">> \o res.msg)

\* _cached_data = transactions
SetData(r) ==
    /\ pc[r] = "set_data"
    /\ cached_data' = frame[r].transactions
    /\ Goto(r, "set_timestamp", frame[r], heap)
    /\ UNCHANGED <<now, cache_timestamp, args, committed, joinVars, pureVars>>

\* _cache_timestamp = datetime.now()
\* A refresh that returns without stamping the snapshot.
SetTimestampSkipped(r) ==
    /\ pc[r] = "set_timestamp"
    /\ UNCHANGED <<cached_data, cache_timestamp, committed>>
    /\ Goto(r, "return", frame[r], heap)
    /\ UNCHANGED <<now, args, joinVars, pureVars>>

SetTimestamp(r) ==
    /\ pc[r] = "set_timestamp"
    /\ cache_timestamp' = now
    /\ committed' = <<cached_data, now>>
    /\ UNCHANGED cached_data
    /\ Goto(r, "return", frame[r], heap)
    /\ UNCHANGED <<now, args, joinVars, pureVars>>

\* return transactions.copy()
ReturnFresh(r) ==
    /\ pc[r] = "return"
    /\ UNCHANGED <<now, cached_data, cache_timestamp, args, committed, joinVars, pureVars>>
    /\ Return(r, [kind |-> "df", via |-> "fresh",
                  ref |-> CopyRef(r, frame[r].transactions), msg |-> << >>],
              CopyHeap(heap, r, frame[r].transactions))

\* str(e) propagated as it is.
ErrorMsgRaw(m) == m

\* error_msg = str(e) if str(e) else "Unknown error occurred"
ErrorMsg(m) == IF m # << >> THEN m ELSE <<"Unknown error occurred">>

\* The except branch re-raising whatever the cache holds.
StaleNever(data) == FALSE

\* if _cached_data is not None
StaleAvailable(data) == data # None

\* except Exception as e: the stale snapshot if there is one, else re-raise.
Except(r) ==
    /\ pc[r] = "except"
    /\ UNCHANGED <<now, cached_data, cache_timestamp, args, committed, joinVars, pureVars>>
    /\ IF StaleAvailable(cached_data)
       THEN Return(r, [kind |-> "df", via |-> "stale", ref |-> CopyRef(r, cached_data),
                       msg |-> << >>],
                   CopyHeap(heap, r, cached_data))
       ELSE Return(r, [kind |-> "raise", via |-> "raise", ref |-> None,
                       msg |-> ErrorMsg(frame[r].exc)],
                   heap)

-----------------------------------------------------------------------------
(* get_cache_info *)

\* The age reported in minutes.
get_cache_info_minutes(data, stamp, h, t) ==
    IF data = None
    THEN [cached |-> FALSE, cache_timestamp |-> NoStamp, records_count |-> 0]
    ELSE [cached |-> TRUE,
          cache_timestamp |-> IF stamp # None THEN isoformat(stamp) ELSE NoStamp,
          records_count |-> Len(h[data].rows),
          cache_age_seconds |-> IF stamp # None THEN t - stamp ELSE None]

get_cache_info(data, stamp, h, t) ==
    IF data = None
    THEN [cached |-> FALSE, cache_timestamp |-> NoStamp, records_count |-> 0]
    ELSE [cached |-> TRUE,
          cache_timestamp |-> IF stamp # None THEN isoformat(stamp) ELSE NoStamp,
          records_count |-> Len(h[data].rows),
          cache_age_seconds |-> IF stamp # None THEN total_seconds(t - stamp) ELSE None]

GetCacheInfo(r) ==
    /\ pc[r] = "info"
    /\ UNCHANGED <<now, cached_data, cache_timestamp, args, committed, joinVars, pureVars>>
    /\ Return(r, [kind |-> "info", via |-> "info", ref |-> None, msg |-> << >>,
                  info |-> get_cache_info(cached_data, cache_timestamp, heap, now)],
              heap)

-----------------------------------------------------------------------------
(* The callers and the environment *)

\* What a caller may do in place to the DataFrame it was handed:
\* df.drop(df.index[0], inplace=True) and df['Qty'] = 0.
Mutations(df) ==
    {[cols |-> df.cols, rows |-> Tail(df.rows)] : x \in {1} \cap 1..Len(df.rows)}
    \cup {[cols |-> df.cols,
           rows |-> [i \in 1..Len(df.rows) |-> [df.rows[i] EXCEPT !.Qty = 0]]]}

Mutate(r) ==
    /\ pc[r] = "done"
    /\ ret[r].kind = "df"
    /\ \E m \in Mutations(heap[ret[r].ref]) :
          /\ m # heap[ret[r].ref]
          /\ heap' = [heap EXCEPT ![ret[r].ref] = m]
    /\ UNCHANGED <<now, cached_data, cache_timestamp, running, pc, args,
                   frame, ret, committed, joinVars, pureVars>>

\* The handler has sent its response: the call's slot is free again.
Finish(r) ==
    /\ pc[r] = "done"
    /\ pc' = [pc EXCEPT ![r] = "idle"]
    /\ ret' = [ret EXCEPT ![r] = NoReturn]
    /\ args' = [args EXCEPT ![r] = NoArgs]
    /\ heap' = Collect(heap, Live(cached_data, frame, ret'))
    /\ UNCHANGED <<now, cached_data, cache_timestamp, running, frame, committed,
                   joinVars, pureVars>>

Tick ==
    /\ now < MaxTime
    /\ now' = now + 1
    /\ UNCHANGED <<cached_data, cache_timestamp, heap, running, pc, args,
                   frame, ret, committed, joinVars, pureVars>>

-----------------------------------------------------------------------------
(* A direct call of join_transactions on frames built row by row *)

JoinOrderRows ==
    {OrderRow(T_O1, T_DAY1, <<"I", "G">>, <<"A", "n", "n">>),
     OrderRow(T_O1, T_BADDAY, <<"W", "E", "B">>, <<"B", "o", "b">>),
     OrderRow(T_O2, T_DAY2, <<"I", "G">>, <<"A", "n", "n">>)}

JoinItemRows ==
    {ItemRow(T_O1, T_SKU1, <<"M">>, <<"2">>, <<"5", "0">>),
     ItemRow(T_O1, T_SKU2, <<"L">>, <<"x">>, << >>),
     ItemRow(T_O3, T_SKU1, <<"S">>, <<"1">>, <<"-", "5">>),
     ItemRow(T_O3, T_SKU3, <<"M">>, << >>, <<"7">>)}

JoinProductRows ==
    {ProductRow(T_SKU1, <<"T", "e", "e">>, <<"P", "u", "g">>),
     ProductRow(T_SKU1, <<"H", "a", "t">>, <<"L", "a", "b">>)}

NoJoin == [called |-> FALSE, ok |-> FALSE, df |-> [cols |-> {}, rows |-> << >>]]

AddOrder ==
    /\ ~jout.called
    /\ Len(jin.orders) < MaxJoinRows
    /\ \E row \in JoinOrderRows : jin' = [jin EXCEPT !.orders = Append(@, row)]
    /\ UNCHANGED <<cacheVars, jout, pureVars>>

AddItem ==
    /\ ~jout.called
    /\ Len(jin.items) < MaxJoinRows
    /\ \E row \in JoinItemRows : jin' = [jin EXCEPT !.items = Append(@, row)]
    /\ UNCHANGED <<cacheVars, jout, pureVars>>

AddProduct ==
    /\ ~jout.called
    /\ Len(jin.products) < MaxJoinRows
    /\ \E row \in JoinProductRows : jin' = [jin EXCEPT !.products = Append(@, row)]
    /\ UNCHANGED <<cacheVars, jout, pureVars>>

CallJoin ==
    /\ ~jout.called
    /\ LET res == join_transactions([cols |-> OrderCols, rows |-> jin.orders],
                                    [cols |-> ItemCols, rows |-> jin.items],
                                    [cols |-> ProductCols, rows |-> jin.products])
       IN jout' = [called |-> TRUE, ok |-> res.ok,
                   df |-> IF res.ok THEN res.df ELSE NoJoin.df]
    /\ UNCHANGED <<cacheVars, jin, pureVars>>

-----------------------------------------------------------------------------
(* shared/filters.py: apply_filters *)

\* An optional str argument left at its default None.
NoneText == <<"None">>

\* Python truthiness of an optional str: None and "" are false.
Truthy(x) == x # NoneText /\ x # << >>

\* The strings pandas reads as the missing datetime instead of rejecting.
nat_strings == {<<"N", "a", "T">>, <<"n", "a", "t">>, <<"N", "A", "T">>,
                <<"n", "a", "n">>, <<"N", "a", "N">>, <<"N", "A", "N">>}

\* pd.to_datetime(x) on one string, errors='raise': a datetime, NaT for a
\* missing-value string, or an exception.
to_datetime_strict(x) ==
    IF x \in nat_strings THEN [ok |-> TRUE, value |-> NaT]
    ELSE IF to_datetime(x) = NaT THEN [ok |-> FALSE, value |-> NaT]
    ELSE [ok |-> TRUE, value |-> to_datetime(x)]

\* t + pd.Timedelta(seconds=s); NaT absorbs.
AddSeconds(t, s) == IF t = NaT THEN NaT ELSE t + s

\* Series >= scalar and Series <= scalar on one cell: NaT compares False.
\* A comparison that lets a missing date pass.
DateGeNa(a, b) == a = NaT \/ (b # NaT /\ a >= b)

DateGe(a, b) == a # NaT /\ b # NaT /\ a >= b

DateLe(a, b) == a # NaT /\ b # NaT /\ a <= b

\* The objects apply_filters works on: objs[1] is the caller's df, `ref` is
\* the object the local filtered_df is bound to, `warnings` counts the
\* printed warnings.
FilterStart(df) == [objs |-> <<df>>, ref |-> 1, warnings |-> 0]

\* filtered_df = df: the local bound to the caller's object.
DfAlias(st) == st

\* filtered_df = df.copy(): a new object with the same rows.
DfCopy(st) ==
    [st EXCEPT !.objs = Append(@, st.objs[st.ref]), !.ref = Len(st.objs) + 1]

\* filtered_df = filtered_df[mask]: a new object holding the rows whose mask
\* entry is True, in their order.
\* An indexing that returns the kept rows last first.
BoolIndexReversed(st, mask) ==
    LET rows == st.objs[st.ref]
        keep == SelectSeq([i \in 1..Len(rows) |-> i], LAMBDA i : mask[i])
    IN [st EXCEPT !.objs = Append(@, [k \in 1..Len(keep) |-> rows[keep[Len(keep) + 1 - k]]]),
                  !.ref = Len(st.objs) + 1]

BoolIndex(st, mask) ==
    LET rows == st.objs[st.ref]
        keep == SelectSeq([i \in 1..Len(rows) |-> i], LAMBDA i : mask[i])
    IN [st EXCEPT !.objs = Append(@, [k \in 1..Len(keep) |-> rows[keep[k]]]),
                  !.ref = Len(st.objs) + 1]

\* except Exception: print a warning, filtered_df as it was.
Warn(st) == [st EXCEPT !.warnings = @ + 1]

FilterByStart(st, start_date) ==
    IF ~Truthy(start_date) THEN st
    ELSE LET start_dt == to_datetime_strict(start_date)
             rows == st.objs[st.ref]
         IN IF ~start_dt.ok THEN Warn(st)
            ELSE BoolIndex(st, [i \in 1..Len(rows) |->
                                   DateGe(rows[i].Order_Date, start_dt.value)])

\* An end bound compared as parsed, at 00:00:00 of the end date.
FilterByEndMidnight(st, end_date) ==
    IF ~Truthy(end_date) THEN st
    ELSE LET end_dt == to_datetime_strict(end_date)
             rows == st.objs[st.ref]
         IN IF ~end_dt.ok THEN Warn(st)
            ELSE BoolIndex(st, [i \in 1..Len(rows) |->
                                   DateLe(rows[i].Order_Date, end_dt.value)])

FilterByEnd(st, end_date) ==
    IF ~Truthy(end_date) THEN st
    ELSE LET end_dt == to_datetime_strict(end_date)
             rows == st.objs[st.ref]
         IN IF ~end_dt.ok THEN Warn(st)
            ELSE BoolIndex(st, [i \in 1..Len(rows) |->
                                   DateLe(rows[i].Order_Date,
                                          AddSeconds(AddSeconds(end_dt.value, SecondsPerDay),
                                                     0 - 1))])

\* An equality criterion that is never applied.
FilterByEqualsSkip(st, column, value) == st

\* if value: filtered_df = filtered_df[filtered_df[column] == value]
FilterByEquals(st, column, value) ==
    IF ~Truthy(value) THEN st
    ELSE LET rows == st.objs[st.ref]
         IN BoolIndex(st, [i \in 1..Len(rows) |-> rows[i][column] = value])

\* apply_filters on the rows `df`: the objects it leaves behind and the one it
\* returns.
apply_filters(df, start_date, end_date, size, collection, breed, channel) ==
    LET s0 == DfCopy(FilterStart(df))
        s1 == FilterByStart(s0, start_date)
        s2 == FilterByEnd(s1, end_date)
        s3 == FilterByEquals(s2, "Size", size)
        s4 == FilterByEquals(s3, "Collection", collection)
        s5 == FilterByEquals(s4, "Dog_Breed", breed)
    IN FilterByEquals(s5, "Channel", channel)

-----------------------------------------------------------------------------
(* Python and pandas helpers used by shared/aggregations.py *)

\* The characters of the model in code-point order.
Ascii ==
    <<"-", "/", "0", "1", "2", "3", "4", "5", "6", "7", "8", "9",
      "A", "B", "C", "D", "E", "F", "G", "H", "I", "J", "K", "L", "M",
      "N", "O", "P", "Q", "R", "S", "T", "U", "V", "W", "X", "Y", "Z",
      "a", "b", "c", "d", "e", "f", "g", "h", "i", "j", "k", "l", "m",
      "n", "o", "p", "q", "r", "s", "t", "u", "v", "w", "x", "y", "z">>

ord(c) == CHOOSE i \in 1..Len(Ascii) : Ascii[i] = c

\* a < b on str: lexicographic by code point.
RECURSIVE TextLt(_, _)
TextLt(a, b) ==
    IF b = << >> THEN FALSE
    ELSE IF a = << >> THEN TRUE
    ELSE IF Head(a) = Head(b) THEN TextLt(Tail(a), Tail(b))
    ELSE ord(Head(a)) < ord(Head(b))

\* The position of text x in the ascending order of the set S, from 0.
TextRank(x, S) == Cardinality({y \in S : TextLt(y, x)})

\* sorted(S) for a set of texts.
SortedTexts(S) ==
    [i \in 1..Cardinality(S) |-> CHOOSE x \in S : TextRank(x, S) = i - 1]

\* sorted(S) for a set of integers.
SortedInts(S) ==
    [i \in 1..Cardinality(S) |-> CHOOSE x \in S : Cardinality({y \in S : y < x}) = i - 1]

\* list.sort(key=...) as a permutation of positions: stable, ascending in the
\* integer keys.
RECURSIVE InsertIdx(_, _, _)
InsertIdx(perm, i, keys) ==
    IF perm = << >> THEN <<i>>
    ELSE IF keys[Head(perm)] <= keys[i]
         THEN <<Head(perm)>> \o InsertIdx(Tail(perm), i, keys)
    ELSE <<i>> \o perm

RECURSIVE SortIdxUpTo(_, _)
SortIdxUpTo(keys, n) ==
    IF n = 0 THEN << >> ELSE InsertIdx(SortIdxUpTo(keys, n - 1), n, keys)

argsort(keys) == SortIdxUpTo(keys, Len(keys))

\* The list `items` reordered by list.sort on the integer keys.
\* The items as they come, whatever the keys.
Unsorted(items, keys) == items

SortedBy(items, keys) == [j \in 1..Len(items) |-> items[argsort(keys)[j]]]

\* Series.sum() of a numeric column.
RECURSIVE SumCol(_, _)
SumCol(rows, col) ==
    IF rows = << >> THEN 0 ELSE Head(rows)[col] + SumCol(Tail(rows), col)

\* A count of the rows instead of the distinct values.
count_rows(rows, col) == Len(rows)

\* Series.nunique(): the number of distinct non-null values.
nunique(rows, col) == Cardinality({rows[i][col] : i \in 1..Len(rows)} \ {NaN})

\* The distinct non-null values of a text column: the groups of a groupby.
GroupKeys(rows, col) == {rows[i][col] : i \in 1..Len(rows)} \ {NaN}

\* The rows of one group.
\* A grouping that keeps the first row of each group only.
GroupRowsFirst(rows, col, key) ==
    SubSeq(SelectSeq(rows, LAMBDA row : row[col] = key), 1, 1)

GroupRows(rows, col, key) == SelectSeq(rows, LAMBDA row : row[col] = key)

\* round(num / den, 2) for den > 0, in hundredths: the nearest hundredth,
\* an exact half going to the even one.
round2(num, den) ==
    LET q == (100 * num) \div den
        r == (100 * num) % den
    IN IF 2 * r > den THEN q + 1
       ELSE IF 2 * r < den THEN q
       ELSE IF q % 2 = 0 THEN q ELSE q + 1

\* The calendar years the dates of the model fall in.
Years == EpochYear..(EpochYear + 40)

\* Series.dt.date on one non-null cell: 00:00:00 of its day.
dt_date(t) == t - (t % SecondsPerDay)

year(t) == CHOOSE y \in Years : MkDate(y, 1, 1) <= t /\ t < MkDate(y + 1, 1, 1)

month(t) ==
    CHOOSE m \in 1..12 :
        /\ MkDate(year(t), m, 1) <= t
        /\ t < MkDate(year(t), m, DaysIn(year(t), m)) + SecondsPerDay

day(t) == ((dt_date(t) - MkDate(year(t), month(t), 1)) \div SecondsPerDay) + 1

\* Zero-padded decimal text of n, two and four digits wide.
Pad2(n) == <<Digits[((n \div 10) % 10) + 1], Digits[(n % 10) + 1]>>

Pad4(n) == Pad2(n \div 100) \o Pad2(n % 100)

\* date.isoformat(): YYYY-MM-DD
date_isoformat(t) == Pad4(year(t)) \o <<"-">> \o Pad2(month(t)) \o <<"-">> \o Pad2(day(t))

\* str(Period('M')): YYYY-MM
period_str(t) == Pad4(year(t)) \o <<"-">> \o Pad2(month(t))

\* The five aggregates of one group; money is reported in hundredths, so
\* round(float(sum), 2) of a whole sum is the sum times 100.
Metrics(rows) ==
    [revenue |-> 100 * SumCol(rows, "Line_Subtotal"),
     cost |-> 100 * SumCol(rows, "COGS_THB"),
     profit |-> 100 * SumCol(rows, "Line_Profit"),
     quantity |-> SumCol(rows, "Qty"),
     orders |-> nunique(rows, "Order_ID")]

-----------------------------------------------------------------------------
(* shared/aggregations.py *)

sales_overview(df) ==
    IF df = << >>
    THEN [total_revenue |-> 0, total_cost |-> 0, total_profit |-> 0,
          total_orders |-> 0, total_quantity |-> 0, average_order_value |-> 0]
    ELSE LET total_revenue == SumCol(df, "Line_Subtotal")
             total_orders == nunique(df, "Order_ID")
         IN [total_revenue |-> 100 * total_revenue,
             total_cost |-> 100 * SumCol(df, "COGS_THB"),
             total_profit |-> 100 * SumCol(df, "Line_Profit"),
             total_orders |-> total_orders,
             total_quantity |-> SumCol(df, "Qty"),
             average_order_value |->
                 IF total_orders > 0 THEN round2(total_revenue, total_orders) ELSE 0]

\* groupby(df['Order_Date'].dt.date): rows without a date fall in no group.
daily_sales(df) ==
    IF df = << >> THEN << >>
    ELSE LET dated == SelectSeq(df, LAMBDA row : row.Order_Date # NaT)
             days  == SortedInts({dt_date(dated[i].Order_Date) : i \in 1..Len(dated)})
             result == [k \in 1..Len(days) |->
                          [date |-> date_isoformat(days[k])]
                          @@ Metrics(SelectSeq(dated, LAMBDA row :
                                                  dt_date(row.Order_Date) = days[k]))]
         IN SortedBy(result, [k \in 1..Len(days) |->
                                 10000 * year(days[k]) + 100 * month(days[k]) + day(days[k])])

sales_by_collection(df) ==
    IF df = << >> THEN << >>
    ELSE LET keys == SortedTexts(GroupKeys(df, "Collection"))
             result == [k \in 1..Len(keys) |->
                          [collection |-> keys[k]]
                          @@ Metrics(GroupRows(df, "Collection", keys[k]))]
         IN SortedBy(result, [k \in 1..Len(keys) |-> 0 - result[k].revenue])

sales_by_breed(df) ==
    IF df = << >> THEN << >>
    ELSE LET breed_df == SelectSeq(df, LAMBDA row : row.Dog_Breed # NaN)
             keys == SortedTexts(GroupKeys(breed_df, "Dog_Breed"))
             result == [k \in 1..Len(keys) |->
                          [breed |-> keys[k]]
                          @@ Metrics(GroupRows(breed_df, "Dog_Breed", keys[k]))]
         IN IF breed_df = << >> THEN << >>
            ELSE SortedBy(result, [k \in 1..Len(keys) |-> 0 - result[k].revenue])

\* A table that ranks no size.
size_order_empty(size) == 999

\* size_order.get(size, 999) of sales_by_size
size_order(size) ==
    CASE size = <<"X", "S">> -> 1
      [] size = <<"S">> -> 2
      [] size = <<"M">> -> 3
      [] size = <<"L">> -> 4
      [] size = <<"X", "L">> -> 5
      [] size = <<"X", "X", "L">> -> 6
      [] size = <<"2", "X", "L">> -> 6
      [] size = <<"3", "X", "L">> -> 7
      [] OTHER -> 999

\* The sort key (size_order.get(size, 999), size) as one integer: the name
\* breaks ties by its position among the names being sorted.
SizeKey(size, names) == size_order(size) * (Cardinality(names) + 1) + TextRank(size, names)

sales_by_size(df) ==
    IF df = << >> THEN << >>
    ELSE LET size_df == SelectSeq(df, LAMBDA row : row.Size # NaN)
             names == GroupKeys(size_df, "Size")
             keys == SortedTexts(names)
             result == [k \in 1..Len(keys) |->
                          [size |-> keys[k]]
                          @@ Metrics(GroupRows(size_df, "Size", keys[k]))]
         IN IF size_df = << >> THEN << >>
            ELSE SortedBy(result, [k \in 1..Len(keys) |-> SizeKey(keys[k], names)])

\* The float results that are not finite numbers.
float_nan == -2000000000

float_inf == 2000000000

\* num / den as a float, rounded to 2 decimals, in hundredths: division by
\* zero gives inf, -inf or nan as numpy does.
div_round2(num, den) ==
    IF den = 0
    THEN (IF num > 0 THEN float_inf ELSE IF num < 0 THEN 0 - float_inf ELSE float_nan)
    ELSE IF den > 0 THEN round2(num, den)
    ELSE round2(0 - num, 0 - den)

\* The customers of a frame in groupby order, and the orders of each.
Customers(df) == SortedTexts(GroupKeys(df, "Customer_Name"))

\* The rows of a customer, counted instead of the distinct orders.
OrdersOfRows(df, customer) == Len(GroupRows(df, "Customer_Name", customer))

OrdersOf(df, customer) == nunique(GroupRows(df, "Customer_Name", customer), "Order_ID")

\* customer_repeat_rate past its df.empty guard
RepeatRateOf(df) ==
    LET customers == Customers(df)
        order_count == [k \in 1..Len(customers) |-> OrdersOf(df, customers[k])]
        total_customers == Len(customers)
        repeat_customers == Cardinality({k \in 1..Len(customers) : order_count[k] > 1})
    IN [total_customers |-> total_customers,
        repeat_customers |-> repeat_customers,
        new_customers |-> total_customers - repeat_customers,
        repeat_rate |-> IF total_customers > 0
                        THEN round2(100 * repeat_customers, total_customers)
                        ELSE 0,
        \* Series.mean() of no value is nan
        average_orders_per_customer |->
            IF total_customers = 0 THEN float_nan
            ELSE round2(SumCol([k \in 1..Len(customers) |-> [n |-> order_count[k]]], "n"),
                        total_customers)]

\* customer_repeat_rate without its df.empty guard
customer_repeat_rate_unguarded(df) == RepeatRateOf(df)

customer_repeat_rate(df) ==
    IF df = << >>
    THEN [total_customers |-> 0, repeat_customers |-> 0, new_customers |-> 0,
          repeat_rate |-> 0, average_orders_per_customer |-> 0]
    ELSE RepeatRateOf(df)

\* Series.min() and Series.max() of a date column: NaT cells are skipped, NaT
\* when none is left.
date_min(rows) ==
    LET ds == {rows[i].Order_Date : i \in 1..Len(rows)} \ {NaT}
    IN IF ds = {} THEN NaT ELSE CHOOSE d \in ds : \A e \in ds : d <= e

date_max(rows) ==
    LET ds == {rows[i].Order_Date : i \in 1..Len(rows)} \ {NaT}
    IN IF ds = {} THEN NaT ELSE CHOOSE d \in ds : \A e \in ds : d >= e

\* Timestamp.isoformat(): YYYY-MM-DDTHH:MM:SS, and 'NaT' for NaT.
ts_isoformat(t) ==
    IF t = NaT THEN <<"N", "a", "T">>
    ELSE LET sec == t % SecondsPerDay
         IN date_isoformat(t) \o <<"T">> \o Pad2(sec \div 3600) \o <<":">>
            \o Pad2((sec % 3600) \div 60) \o <<":">> \o Pad2(sec % 60)

\* The per-customer sums shared by customer_lifetime_value and top_customers.
CustomerTotals(rows) ==
    [total_revenue |-> 100 * SumCol(rows, "Line_Subtotal"),
     total_profit |-> 100 * SumCol(rows, "Line_Profit"),
     total_orders |-> nunique(rows, "Order_ID"),
     total_quantity |-> SumCol(rows, "Qty")]

\* The frames of the model carry neither an Instagram nor a Phone column.
customer_lifetime_value(df) ==
    IF df = << >> THEN << >>
    ELSE LET customers == Customers(df)
             result == [k \in 1..Len(customers) |->
                 LET rows == GroupRows(df, "Customer_Name", customers[k])
                     first_order == date_min(rows)
                     last_order == date_max(rows)
                 IN [customer |-> customers[k],
                     avg_order_value |-> div_round2(SumCol(rows, "Line_Subtotal"),
                                                    nunique(rows, "Order_ID")),
                     first_order_date |-> ts_isoformat(first_order),
                     last_order_date |-> ts_isoformat(last_order),
                     lifetime_days |-> IF first_order = NaT THEN 0
                                       ELSE (last_order - first_order) \div SecondsPerDay]
                    @@ CustomerTotals(rows)]
         IN SortedBy(result, [k \in 1..Len(customers) |-> 0 - result[k].total_revenue])

\* DataFrame.nlargest(limit, 'total_revenue'): the first `limit` rows of the
\* stable descending order; none for limit <= 0.
top_customers(df, limit) ==
    IF df = << >> THEN << >>
    ELSE LET customers == Customers(df)
             top_df == [k \in 1..Len(customers) |->
                          [customer |-> customers[k]]
                          @@ CustomerTotals(GroupRows(df, "Customer_Name", customers[k]))]
             sorted == SortedBy(top_df, [k \in 1..Len(customers) |-> 0 - top_df[k].total_revenue])
             n == IF limit <= 0 THEN 0
                  ELSE IF limit < Len(sorted) THEN limit ELSE Len(sorted)
         IN [j \in 1..n |-> [rank |-> j] @@ sorted[j]]

\* GroupBy 'first' on Channel: the first non-null cell in row order.
first_channel(rows) ==
    LET some == SelectSeq(rows, LAMBDA row : row.Channel # NaN)
    IN IF some = << >> THEN NaN ELSE some[1].Channel

customer_acquisition_by_channel(df) ==
    IF df = << >> THEN << >>
    ELSE LET customers == Customers(df)
             first_orders == [k \in 1..Len(customers) |->
                 [Customer_Name |-> customers[k],
                  Order_Date |-> date_min(GroupRows(df, "Customer_Name", customers[k])),
                  Channel |-> first_channel(GroupRows(df, "Customer_Name", customers[k]))]]
             channels == SortedTexts(GroupKeys(first_orders, "Channel"))
             count == [k \in 1..Len(channels) |->
                          Len(GroupRows(first_orders, "Channel", channels[k]))]
             total_customers == SumCol([k \in 1..Len(channels) |-> [n |-> count[k]]], "n")
             result == [k \in 1..Len(channels) |->
                 [channel |-> channels[k],
                  new_customers |-> count[k],
                  percentage |-> IF total_customers > 0
                                 THEN round2(100 * count[k], total_customers)
                                 ELSE 0]]
         IN SortedBy(result, [k \in 1..Len(channels) |-> 0 - count[k]])

\* size_order.get(size, 999) of size_distribution, which also ranks 4XL
size_order_distribution(size) ==
    IF size = <<"4", "X", "L">> THEN 8 ELSE size_order(size)

size_distribution(df) ==
    IF df = << >> THEN << >>
    ELSE LET size_df == SelectSeq(df, LAMBDA row : row.Size # NaN)
             names == GroupKeys(size_df, "Size")
             keys == SortedTexts(names)
             quantity == [k \in 1..Len(keys) |->
                             SumCol(GroupRows(size_df, "Size", keys[k]), "Qty")]
             total_quantity == SumCol(size_df, "Qty")
             result == [k \in 1..Len(keys) |->
                 [size |-> keys[k],
                  quantity |-> quantity[k],
                  percentage |-> IF total_quantity > 0
                                 THEN round2(100 * quantity[k], total_quantity)
                                 ELSE 0]]
         IN IF size_df = << >> THEN << >>
            ELSE SortedBy(result, [k \in 1..Len(keys) |->
                     size_order_distribution(keys[k]) * (Cardinality(names) + 1)
                        + TextRank(keys[k], names)])

\* The larger of the absolute values of a list of integers, plus one.
RECURSIVE Span(_)
Span(ns) ==
    IF ns = << >> THEN 1
    ELSE LET a == IF Head(ns) < 0 THEN 1 - Head(ns) ELSE 1 + Head(ns)
             b == Span(Tail(ns))
         IN IF a > b THEN a ELSE b

color_preferences_by_breed(df) ==
    IF df = << >> THEN << >>
    ELSE LET color_df == SelectSeq(df, LAMBDA row :
                                         row.Dog_Breed # NaN /\ row.Shirt_Color # NaN)
             breeds == SortedTexts(GroupKeys(color_df, "Dog_Breed"))
             \* the (breed, color) groups in groupby order
             pairs == FlattenSeq([b \in 1..Len(breeds) |->
                         LET colors == SortedTexts(GroupKeys(
                                 GroupRows(color_df, "Dog_Breed", breeds[b]), "Shirt_Color"))
                         IN [c \in 1..Len(colors) |-> [breed |-> breeds[b], color |-> colors[c]]]])
             result == [k \in 1..Len(pairs) |->
                 LET rows == GroupRows(GroupRows(color_df, "Dog_Breed", pairs[k].breed),
                                       "Shirt_Color", pairs[k].color)
                     breed_total == SumCol(GroupRows(color_df, "Dog_Breed", pairs[k].breed), "Qty")
                 IN [breed |-> pairs[k].breed,
                     color |-> pairs[k].color,
                     quantity |-> SumCol(rows, "Qty"),
                     revenue |-> 100 * SumCol(rows, "Line_Subtotal"),
                     percentage |-> IF breed_total > 0
                                    THEN round2(100 * SumCol(rows, "Qty"), breed_total)
                                    ELSE 0]]
             span == Span([k \in 1..Len(pairs) |-> result[k].quantity])
         IN IF color_df = << >> THEN << >>
            \* key (breed, -quantity)
            ELSE SortedBy(result, [k \in 1..Len(pairs) |->
                     TextRank(result[k].breed, GroupKeys(color_df, "Dog_Breed")) * (2 * span + 1)
                        + (span - result[k].quantity)])

\* Series.dt.to_period('M') on one non-null cell: 00:00:00 of the first day
\* of its month.
to_period_M(t) == MkDate(year(t), month(t), 1)

\* curr / prev * 100: the ratio, not the change.
growth_ratio(curr, prev) ==
    IF prev = << >> THEN << >>
    ELSE IF div_round2(100 * curr, prev[1]) = float_nan THEN << >>
    ELSE <<div_round2(100 * curr, prev[1])>>

\* pct_change() * 100 of one entry, rounded to 2 decimals, in hundredths;
\* << >> is None: the first entry and 0/0 are nan, which is reported as None.
growth(curr, prev) ==
    IF prev = << >> THEN << >>
    ELSE IF div_round2(100 * (curr - prev[1]), prev[1]) = float_nan THEN << >>
    ELSE <<div_round2(100 * (curr - prev[1]), prev[1])>>

monthly_trends(df) ==
    IF df = << >> THEN << >>
    ELSE LET dated == SelectSeq(df, LAMBDA row : row.Order_Date # NaT)
             months == SortedInts({to_period_M(dated[i].Order_Date) : i \in 1..Len(dated)})
             rowsOf == [k \in 1..Len(months) |->
                          SelectSeq(dated, LAMBDA row : to_period_M(row.Order_Date) = months[k])]
         IN [k \in 1..Len(months) |->
               [month |-> period_str(months[k]),
                customers |-> nunique(rowsOf[k], "Customer_Name"),
                revenue_growth |->
                    growth(SumCol(rowsOf[k], "Line_Subtotal"),
                           IF k = 1 THEN << >> ELSE <<SumCol(rowsOf[k - 1], "Line_Subtotal")>>),
                orders_growth |->
                    growth(nunique(rowsOf[k], "Order_ID"),
                           IF k = 1 THEN << >> ELSE <<nunique(rowsOf[k - 1], "Order_ID")>>)]
               @@ Metrics(rowsOf[k])]

-----------------------------------------------------------------------------
(* A direct call of extract_collection_from_sku on a SKU built from parts *)

MaxSkuParts == 4

SkuParts ==
    {<<"W", "U", "U", "F">>, <<"0", "0", "1">>, <<"0", "0", "1", "2">>, <<"0", "1">>,
     <<"N", "O", "P", "R", "E", "F", "I", "X">>, <<"X">>, <<"Y">>, <<"W", "H">>,
     <<"M">>, << >>}

NoSku == [parts |-> << >>, called |-> FALSE, out |-> << >>]

\* The SKU string under construction: its parts joined by hyphens.
SkuOf(parts) == JoinWith(parts, <<"-">>)

AddSkuPart ==
    /\ ~skuv.called
    /\ Len(skuv.parts) < MaxSkuParts
    /\ \E part \in SkuParts : skuv' = [skuv EXCEPT !.parts = Append(@, part)]
    /\ UNCHANGED <<cacheVars, joinVars, txns, fout, agg>>

CallExtract ==
    /\ ~skuv.called
    /\ skuv' = [skuv EXCEPT !.called = TRUE,
                            !.out = extract_collection_from_sku(SkuOf(skuv.parts))]
    /\ UNCHANGED <<cacheVars, joinVars, txns, fout, agg>>


-----------------------------------------------------------------------------
(* A direct call of apply_filters on a Transactions frame built row by row *)

MaxFilterRows == 2

T_IG == <<"I", "G">>

T_WEB == <<"W", "E", "B">>

T_PUG == <<"P", "u", "g">>

T_ANN == <<"A", "n", "n">>

T_BOB == <<"B", "o", "b">>

T_NAT == <<"N", "a", "T">>

\* 2024-01-05 00:00:00
DAY1 == MkDate(2024, 1, 5)

\* One row of the frame join_transactions returns.
Txn(date, id, channel, customer, sku, breed, size, qty, subtotal) ==
    [Order_Date |-> date, Order_ID |-> id, Channel |-> channel,
     Customer_Name |-> customer, SKU |-> sku,
     Collection |-> extract_collection_from_sku(sku),
     Product_Name |-> IF breed = NaN THEN NaN ELSE <<"T", "e", "e">>,
     Dog_Breed |-> breed, Shirt_Color |-> <<"W", "H">>, Size |-> size,
     Qty |-> qty, Unit_Price_THB |-> subtotal, Line_Subtotal |-> subtotal,
     COGS_THB |-> 1, Line_Profit |-> subtotal - 1]

\* Rows on 2024-01-05 at 00:00:00 and at 23:59:59, on the next day at
\* 00:00:00, on the day before at 23:59:59, and without a date.
FilterRows ==
    {Txn(DAY1, T_O1, T_IG, T_ANN, T_SKU1, T_PUG, <<"M">>, 2, 50),
     Txn(DAY1 + SecondsPerDay - 1, T_O1, T_IG, T_ANN, T_SKU2, NaN, <<"m">>, 1, 7),
     Txn(DAY1 + SecondsPerDay, T_O2, T_WEB, T_BOB, T_SKU1, T_PUG, <<"M">>, 1, 50),
     Txn(DAY1 - 1, T_O3, <<"i", "g">>, T_BOB, T_SKU1, <<"p", "u", "g">>, <<"L">>, 1, 50),
     Txn(NaT, T_O3, NaN, NaN, T_SKU3, T_PUG, <<"M">>, 1, 0)}

\* The query parameters a request can carry.
DateArgs == {NoneText, T_DAY1, T_BADDAY, T_NAT}

Criteria ==
    [start_date : DateArgs, end_date : DateArgs,
     size : {NoneText, << >>, <<"M">>},
     collection : {NoneText, SubSeq(T_SKU1, 1, 8)},
     breed : {NoneText, T_PUG},
     channel : {NoneText, T_IG}]

NoFilter == [called |-> FALSE]

AddFilterTxn ==
    /\ ~fout.called
    /\ Len(txns) < MaxFilterRows
    /\ \E row \in FilterRows : txns' = Append(txns, row)
    /\ UNCHANGED <<cacheVars, joinVars, skuv, fout, agg>>

\* filtered = apply_filters(df, ...): afterwards txns is the caller's df as
\* the call left it.
CallFilter ==
    /\ ~fout.called
    /\ \E crit \in Criteria :
          LET st == apply_filters(txns, crit.start_date, crit.end_date, crit.size,
                                  crit.collection, crit.breed, crit.channel)
          IN /\ fout' = [called |-> TRUE, crit |-> crit, objs |-> st.objs,
                         ref |-> st.ref, warnings |-> st.warnings]
             /\ txns' = st.objs[1]
    /\ UNCHANGED <<cacheVars, joinVars, skuv, agg>>


-----------------------------------------------------------------------------
(* A direct call of an aggregation on a Transactions frame built row by row *)

MaxTxns == 3

\* 2024-02-10 00:00:00
DAY2 == MkDate(2024, 2, 10)

T_LAB == <<"L", "a", "b">>

AggRows ==
    {Txn(DAY1, T_O1, T_IG, T_ANN, T_SKU1, T_PUG, <<"L">>, 2, 50),
     Txn(DAY1 + 3600, T_O1, T_IG, T_ANN, T_SKU2, NaN, <<"X", "S">>, 1, 7),
     Txn(DAY1 + SecondsPerDay, T_O2, T_WEB, T_BOB, T_SKU1, T_PUG, <<"M">>, 1, 50),
     Txn(DAY2, T_O3, T_WEB, T_ANN, T_SKU1, T_LAB, <<"X", "X", "L">>, 1, 0),
     Txn(NaT, T_O3, NaN, NaN, T_SKU3, T_PUG, NaN, 1, 7),
     Txn(DAY1, T_O2, T_IG, T_BOB, T_SKU2, NaN, <<"2", "X", "L">>, 3, 7),
     Txn(DAY2, <<"O", "4">>, T_IG, T_BOB, T_SKU3, T_LAB, <<"m">>, 1, 50),
     Txn(DAY1, T_O1, T_IG, T_ANN, T_SKU3, T_LAB, <<"K", "i", "d">>, 1, 7)}

\* The aggregation functions of one argument.
AggFunctions ==
    {"sales_overview", "daily_sales", "sales_by_collection", "sales_by_breed",
     "sales_by_size", "customer_repeat_rate", "customer_lifetime_value",
     "customer_acquisition_by_channel", "size_distribution",
     "color_preferences_by_breed", "monthly_trends"}

\* The limits a top_customers call is made with; 10 is the default.
Limits == {1, 2, 10}

\* fn(df)
Apply(fn, df) ==
    CASE fn = "sales_overview" -> sales_overview(df)
      [] fn = "daily_sales" -> daily_sales(df)
      [] fn = "sales_by_collection" -> sales_by_collection(df)
      [] fn = "sales_by_breed" -> sales_by_breed(df)
      [] fn = "sales_by_size" -> sales_by_size(df)
      [] fn = "customer_repeat_rate" -> customer_repeat_rate(df)
      [] fn = "customer_lifetime_value" -> customer_lifetime_value(df)
      [] fn = "customer_acquisition_by_channel" -> customer_acquisition_by_channel(df)
      [] fn = "size_distribution" -> size_distribution(df)
      [] fn = "color_preferences_by_breed" -> color_preferences_by_breed(df)
      [] fn = "monthly_trends" -> monthly_trends(df)

NoAgg == [called |-> FALSE, fn |-> "none", limit |-> 0, value |-> << >>]

AddTxn ==
    /\ ~agg.called
    /\ Len(txns) < MaxTxns
    /\ \E row \in AggRows : txns' = Append(txns, row)
    /\ UNCHANGED <<cacheVars, joinVars, skuv, fout, agg>>

CallAggregation ==
    /\ ~agg.called
    /\ \E fn \in AggFunctions :
          agg' = [called |-> TRUE, fn |-> fn, limit |-> 0, value |-> Apply(fn, txns)]
    /\ UNCHANGED <<cacheVars, joinVars, skuv, txns, fout>>

CallTopCustomers ==
    /\ ~agg.called
    /\ \E limit \in Limits :
          agg' = [called |-> TRUE, fn |-> "top_customers", limit |-> limit,
                  value |-> top_customers(txns, limit)]
    /\ UNCHANGED <<cacheVars, joinVars, skuv, txns, fout>>

-----------------------------------------------------------------------------
(* A direct call of monthly_trends on a frame spanning several months *)

MaxTrendTxns == 3

\* 2023-12-31 00:00:00
DAY0 == MkDate(2023, 12, 31)

\* 2024-03-31 00:00:00
DAY3 == MkDate(2024, 3, 31)

\* Rows of 1000 in January, of 1500 and of 0 in February and of 50 in
\* March, one row of the year before, and one row without a date.
TrendRows ==
    {Txn(DAY1, T_O1, T_IG, T_ANN, T_SKU1, T_PUG, <<"M">>, 1, 1000),
     Txn(DAY2, T_O2, T_WEB, T_BOB, T_SKU1, T_PUG, <<"M">>, 1, 1500),
     Txn(DAY2, T_O3, T_WEB, T_ANN, T_SKU2, NaN, <<"L">>, 1, 0),
     Txn(DAY3, <<"O", "4">>, T_IG, T_ANN, T_SKU1, T_LAB, <<"L">>, 2, 50),
     Txn(DAY0, <<"O", "0">>, T_IG, T_BOB, T_SKU1, T_PUG, <<"M">>, 1, 7),
     Txn(NaT, T_O3, NaN, NaN, T_SKU3, T_PUG, NaN, 1, 7)}

AddTrendTxn ==
    /\ ~agg.called
    /\ Len(txns) < MaxTrendTxns
    /\ \E row \in TrendRows : txns' = Append(txns, row)
    /\ UNCHANGED <<cacheVars, joinVars, skuv, fout, agg>>

CallMonthlyTrends ==
    /\ ~agg.called
    /\ agg' = [called |-> TRUE, fn |-> "monthly_trends", limit |-> 0,
               value |-> monthly_trends(txns)]
    /\ UNCHANGED <<cacheVars, joinVars, skuv, txns, fout>>

-----------------------------------------------------------------------------
(* A direct call of top_customers on a frame of several customers *)

MaxTopTxns == 3

T_CAT == <<"C", "a", "t">>

T_DAN == <<"D", "a", "n">>

\* Customers with revenues 300, 500 and 100, a second order of the first
\* customer, a customer level with the first, and a row without a customer.
TopRows ==
    {Txn(DAY1, T_O1, T_IG, T_ANN, T_SKU1, T_PUG, <<"M">>, 1, 300),
     Txn(DAY1, T_O2, T_WEB, T_BOB, T_SKU1, T_PUG, <<"M">>, 2, 500),
     Txn(DAY2, T_O3, T_IG, T_CAT, T_SKU2, NaN, <<"L">>, 1, 100),
     Txn(DAY2, <<"O", "4">>, T_WEB, T_ANN, T_SKU1, T_LAB, <<"L">>, 1, 250),
     Txn(DAY1, <<"O", "5">>, T_IG, T_DAN, T_SKU3, T_LAB, <<"M">>, 3, 300),
     Txn(DAY2, <<"O", "6">>, T_IG, NaN, T_SKU1, T_PUG, <<"M">>, 1, 900)}

AddTopTxn ==
    /\ ~agg.called
    /\ Len(txns) < MaxTopTxns
    /\ \E row \in TopRows : txns' = Append(txns, row)
    /\ UNCHANGED <<cacheVars, joinVars, skuv, fout, agg>>

-----------------------------------------------------------------------------
(* A request handler's pipeline on a join result: apply_filters, then an *)
(* aggregation of the filtered frame                                      *)

\* Requests with date bounds only.
DateCriteria ==
    {crit \in Criteria :
        /\ crit.start_date \in {NoneText, T_DAY1}
        /\ crit.end_date \in {NoneText, T_DAY1}
        /\ \A f \in {"size", "collection", "breed", "channel"} : crit[f] = NoneText}

FilterJoined ==
    /\ jout.called
    /\ jout.ok
    /\ ~fout.called
    /\ \E crit \in DateCriteria :
          LET st == apply_filters(jout.df.rows, crit.start_date, crit.end_date, crit.size,
                                  crit.collection, crit.breed, crit.channel)
          IN fout' = [called |-> TRUE, crit |-> crit, objs |-> st.objs,
                      ref |-> st.ref, warnings |-> st.warnings]
    /\ UNCHANGED <<cacheVars, joinVars, skuv, txns, agg>>

AggregateFiltered ==
    /\ fout.called
    /\ ~agg.called
    /\ \E fn \in {"sales_overview", "daily_sales", "monthly_trends"} :
          agg' = [called |-> TRUE, fn |-> fn, limit |-> 0,
                  value |-> Apply(fn, fout.objs[fout.ref])]
    /\ UNCHANGED <<cacheVars, joinVars, skuv, txns, fout>>

-----------------------------------------------------------------------------
(* Specifications *)

Init ==
    /\ now = 0
    /\ cached_data = None
    /\ cache_timestamp = None
    /\ heap = Collect(<< >>, {})
    /\ running = None
    /\ pc = [r \in Calls |-> "idle"]
    /\ args = [r \in Calls |-> NoArgs]
    /\ frame = [r \in Calls |-> EmptyFrame]
    /\ ret = [r \in Calls |-> NoReturn]
    /\ committed = <<None, None>>
    /\ jin = [orders |-> << >>, items |-> << >>, products |-> << >>]
    /\ jout = NoJoin
    /\ skuv = NoSku
    /\ txns = << >>
    /\ fout = NoFilter
    /\ agg = NoAgg

Step(r) ==
    \/ Call(r)
    \/ Start(r)
    \/ CheckCache(r)
    \/ GetClient(r)
    \/ OpenSheet(r)
    \/ \E i \in 1..3 : LoadTable(r, TableOrder[i])
    \/ Join(r)
    \/ SetData(r)
    \/ SetTimestamp(r)
    \/ ReturnFresh(r)
    \/ Except(r)
    \/ GetCacheInfo(r)
    \/ Mutate(r)
    \/ Finish(r)

Next == (\E r \in Calls : Step(r)) \/ Tick

Spec == Init /\ [][Next]_vars

JoinNext == AddOrder \/ AddItem \/ AddProduct \/ CallJoin

JoinSpec == Init /\ [][JoinNext]_vars

SkuNext == AddSkuPart \/ CallExtract

SkuSpec == Init /\ [][SkuNext]_vars

FilterNext == AddFilterTxn \/ CallFilter

FilterSpec == Init /\ [][FilterNext]_vars

AggNext == AddTxn \/ CallAggregation \/ CallTopCustomers

AggSpec == Init /\ [][AggNext]_vars

TrendNext == AddTrendTxn \/ CallMonthlyTrends

TrendSpec == Init /\ [][TrendNext]_vars

TopNext == AddTopTxn \/ CallTopCustomers

TopSpec == Init /\ [][TopNext]_vars

PipelineNext == AddOrder \/ AddItem \/ CallJoin \/ FilterJoined \/ AggregateFiltered

PipelineSpec == Init /\ [][PipelineNext]_vars

-----------------------------------------------------------------------------
(* Properties of the result cache *)

\* Call r leaves position `at` in this step.
Leaves(r, at) == pc[r] = at /\ pc'[r] # at

\* The snapshot, its object and its timestamp are what they were.
SnapshotUntouched ==
    /\ cached_data' = cached_data
    /\ cache_timestamp' = cache_timestamp
    /\ cached_data # None => heap'[cached_data] = heap[cached_data]

\* Call r is handed, by this step, a DataFrame equal to `df`.
Receives(r, df) ==
    /\ pc'[r] = "done"
    /\ ret'[r].kind = "df"
    /\ heap'[ret'[r].ref] = df

\* C1. Cache hit: a load_transactions(force_refresh=False) call that finds a
\* snapshot younger than 5 minutes returns the snapshot's data at once (it
\* never reaches the loader) and leaves snapshot and timestamp as they were.
CacheHitServesSnapshot ==
    [][\A r \in Calls :
          (/\ Leaves(r, "check")
           /\ ~args[r].force_refresh
           /\ cached_data # None
           /\ cache_timestamp # None
           /\ now - cache_timestamp < 5)
          => (/\ Receives(r, heap[cached_data])
              /\ ret'[r].via = "hit"
              /\ SnapshotUntouched)]_vars

\* A call was served from a snapshot between 1 and 4 minutes old.
CacheHitWitness ==
    \E r \in Calls :
        /\ pc[r] = "done"
        /\ ret[r].via = "hit"
        /\ cache_timestamp # None
        /\ now - cache_timestamp \in 1..4
        /\ heap[ret[r].ref] = heap[cached_data]

\* C2. Cache refresh: a load_transactions call goes to the loader whenever
\* force_refresh is set, or there is no snapshot, or the snapshot is 5 minutes
\* old or older; when load and join succeed the snapshot becomes the newly
\* joined frame, the timestamp the time of the write, and the caller is handed
\* the new data.
RefreshReplacesSnapshot ==
    [][\A r \in Calls :
          /\ (/\ Leaves(r, "check")
              /\ (\/ args[r].force_refresh
                  \/ cached_data = None
                  \/ now - cache_timestamp >= 5))
             => pc'[r] = "client"
          /\ Leaves(r, "join") /\ pc'[r] # "except"
             => /\ frame'[r].transactions \notin DOMAIN heap
                /\ heap'[frame'[r].transactions]
                      = join_transactions(frame[r].orders_df, frame[r].order_items_df,
                                          frame[r].products_df).df
          /\ Leaves(r, "set_timestamp")
             => /\ cached_data' = frame[r].transactions
                /\ cache_timestamp' = now
          /\ Leaves(r, "return")
             => /\ cached_data = frame[r].transactions
                /\ cache_timestamp <= now
                /\ Receives(r, heap[frame[r].transactions])
                /\ ret'[r].via = "fresh"
                /\ SnapshotUntouched]_vars

\* An unforced call has reloaded an expired snapshot: the new data is written,
\* the old timestamp (5 minutes old or older) is about to be replaced.
RefreshWitness ==
    \E r \in Calls :
        /\ pc[r] = "set_timestamp"
        /\ ~args[r].force_refresh
        /\ cache_timestamp # None
        /\ now - cache_timestamp >= 5

\* The positions of load_transactions before the cache is written.
BeforeWrite == {"check", "client", "open", "Orders", "Order_Items", "Products",
                "join", "except"}

\* C3. Stale read on failure: when a refresh fails at any stage and a snapshot
\* exists, the call does not raise, returns the snapshot's data, and the
\* snapshot and its timestamp are as they were throughout the call.
StaleReadOnFailure ==
    [][\A r \in Calls :
          /\ (Leaves(r, "except") /\ cached_data # None)
             => (/\ Receives(r, heap[cached_data])
                 /\ ret'[r].via = "stale"
                 /\ SnapshotUntouched)
          /\ (running = r /\ pc[r] \in BeforeWrite /\ pc'[r] \in BeforeWrite \cup {"done"}
                /\ pc'[r] # "set_data")
             => SnapshotUntouched]_vars

\* A call whose refresh failed was handed the snapshot.
StaleReadWitness ==
    \E r \in Calls :
        /\ pc[r] = "done"
        /\ ret[r].via = "stale"
        /\ heap[ret[r].ref] = heap[cached_data]

\* C4. Cold-cache failure: a load that fails while no snapshot was ever stored
\* raises with a non-empty message and leaves the cache empty: no snapshot, no
\* timestamp, get_cache_info reports cached = false.
ColdFailureRaises ==
    [][\A r \in Calls :
          (Leaves(r, "except") /\ cached_data = None)
          => (/\ pc'[r] = "done"
              /\ ret'[r].kind = "raise"
              /\ ret'[r].msg # << >>
              /\ cache_timestamp = None
              /\ cached_data' = None
              /\ cache_timestamp' = None
              /\ ~get_cache_info(cached_data', cache_timestamp', heap', now').cached)]_vars

\* A call raised the fallback message on an empty cache.
ColdFailureWitness ==
    \E r \in Calls :
        /\ pc[r] = "done"
        /\ ret[r].kind = "raise"
        /\ ret[r].msg = <<"Unknown error occurred">>
        /\ cached_data = None
        /\ cache_timestamp = None

\* The positions at which a call reads the module globals.
ReadPoints == {"check", "except", "info"}

\* C5. Atomic snapshot replacement: whenever a call reads the globals, the
\* (snapshot, timestamp) pair it sees is the pair one completed refresh wrote,
\* never the data of one refresh with the timestamp of another.
AtomicSnapshotPair ==
    \A r \in Calls :
        pc[r] \in ReadPoints => <<cached_data, cache_timestamp>> = committed

\* A call reads the pair of a completed refresh while another call is waiting.
AtomicPairWitness ==
    \E r, q \in Calls :
        /\ pc[r] = "info"
        /\ pc[q] = "pending"
        /\ args[q].op = "load"
        /\ committed # <<None, None>>
        /\ committed[2] >= 1

\* The positions at which load_transactions waits for a remote call.
RemoteCalls == {"client", "open", "Orders", "Order_Items", "Products"}

\* C6. Non-blocking stale reads: while one call's refresh waits for its remote
\* call and a snapshot exists, another request that has arrived can proceed
\* (be started and served) without the refresh having to finish.
NonBlockingStaleRead ==
    \A r, q \in Calls :
        (/\ r # q
         /\ pc[q] \in RemoteCalls
         /\ pc[r] = "pending"
         /\ args[r].op = "load"
         /\ cached_data # None)
        => ENABLED Start(r)

\* C7. Snapshot isolation from callers: what load_transactions hands out is a
\* copy, an object of its own: it is neither the snapshot nor the value handed
\* to another call, and nothing a caller does to it changes the snapshot.
SnapshotIsolation ==
    [][/\ \A r \in Calls :
            ret'[r].kind = "df"
            => /\ ret'[r].ref # cached_data'
               /\ \A q \in Calls \ {r} : ret'[q].kind = "df" => ret'[q].ref # ret'[r].ref
       /\ (cached_data # None /\ cached_data' = cached_data)
            => heap'[cached_data] = heap[cached_data]
       /\ \A r \in Calls :
            (pc[r] = "done" /\ pc'[r] = "done" /\ ret[r].kind = "df"
               /\ heap'[ret[r].ref] # heap[ret[r].ref])
            => /\ SnapshotUntouched
               /\ \A q \in Calls \ {r} :
                     ret[q].kind = "df" => heap'[ret[q].ref] = heap[ret[q].ref]]_vars

\* A caller has zeroed Qty in the frame it was handed; the snapshot it was
\* copied from still has the loaded quantity.
IsolationWitness ==
    \E r \in Calls :
        /\ pc[r] = "done"
        /\ ret[r].kind = "df"
        /\ cached_data # None
        /\ Len(heap[ret[r].ref].rows) = 1
        /\ Len(heap[cached_data].rows) = 1
        /\ heap[ret[r].ref].rows[1].SKU = heap[cached_data].rows[1].SKU
        /\ heap[ret[r].ref].rows[1].Qty = 0
        /\ heap[cached_data].rows[1].Qty = 2

\* C8. get_cache_info reports the snapshot status without loading and without
\* changing the cache: with no snapshot it reports cached = false, no
\* timestamp and 0 records; otherwise cached = true, the snapshot's timestamp,
\* its number of records and its age in seconds.
CacheInfoReports ==
    [][\A r \in Calls :
          Leaves(r, "info")
          => /\ pc'[r] = "done"
             /\ ret'[r].kind = "info"
             /\ SnapshotUntouched
             /\ IF cached_data = None
                THEN /\ ~ret'[r].info.cached
                     /\ ret'[r].info.cache_timestamp = NoStamp
                     /\ ret'[r].info.records_count = 0
                ELSE /\ ret'[r].info.cached
                     /\ cache_timestamp # None
                     /\ ret'[r].info.cache_timestamp = isoformat(cache_timestamp)
                     /\ ret'[r].info.records_count = Len(heap[cached_data].rows)
                     /\ ret'[r].info.cache_age_seconds = 60 * (now - cache_timestamp)]_vars

\* get_cache_info reported a snapshot that was 2 minutes old.
CacheInfoWitness ==
    \E r \in Calls :
        /\ pc[r] = "done"
        /\ ret[r].kind = "info"
        /\ ret[r].info.cached
        /\ ret[r].info.cache_age_seconds = 120
        /\ ret[r].info.records_count = 1

\* The message names the table.
Names(msg, name) == \E i \in 1..Len(msg) : msg[i] = name

\* C9. Table-load error reporting: on a cold cache the three tables are tried
\* in the order Orders, Order_Items, Products; the first failure ends the load
\* before the join and before any cache write, and the error the caller gets
\* names the failing table.
TableErrorNamesTable ==
    [][\A r \in Calls : \A i \in 1..3 :
          (Leaves(r, TableOrder[i]) /\ cached_data = None)
          => /\ pc'[r] \in {IF i < 3 THEN TableOrder[i + 1] ELSE "join", "except"}
             /\ pc'[r] = "except"
                => /\ SnapshotUntouched
                   /\ Names(ErrorMsg(frame'[r].exc), TableOrder[i])]_vars

-----------------------------------------------------------------------------
(* Properties of join_transactions *)

HasOrder(item) == \E i \in 1..Len(jin.orders) : jin.orders[i].Order_ID = item.Order_ID

HasProduct(item) == \E i \in 1..Len(jin.products) : jin.products[i].SKU = item.SKU

\* Transaction t carries the line item `item`: the item's own text fields as
\* they were, and a number in each numeric field.
CarriesItem(t, item) ==
    /\ t.Order_ID = item.Order_ID
    /\ t.SKU = item.SKU
    /\ t.Shirt_Color = item.Shirt_Color
    /\ t.Size = item.Size
    /\ \A c \in numeric_columns : t[c] \in Int
    /\ (item.Qty = <<"2">> <=> t.Qty = 2)

\* Transaction t carries the order-level fields of a matching Orders row.
CarriesOrder(t) ==
    \E i \in 1..Len(jin.orders) :
        /\ jin.orders[i].Order_ID = t.Order_ID
        /\ t.Channel = jin.orders[i].Channel
        /\ t.Customer_Name = jin.orders[i].Customer_Name

\* C10. Left-join totality: join_transactions drops no Order_Items row. Every
\* item yields at least as many Transactions as it has copies among the items;
\* an item whose Order_ID matches no Orders row yields Transactions with the
\* order-level fields null, an item whose SKU matches no Products row yields
\* Transactions with product_name and dog_breed null and the other fields
\* populated.
LeftJoinTotality ==
    jout.called =>
        /\ jout.ok
        /\ Len(jout.df.rows) >= Len(jin.items)
        /\ \A i \in 1..Len(jin.items) :
              LET item == jin.items[i]
                  mine == {j \in 1..Len(jout.df.rows) : CarriesItem(jout.df.rows[j], item)}
              IN /\ Cardinality(mine)
                       >= Cardinality({k \in 1..Len(jin.items) : jin.items[k] = item})
                 /\ \A j \in mine :
                       LET t == jout.df.rows[j]
                       IN /\ IF HasOrder(item)
                             THEN CarriesOrder(t)
                             ELSE /\ t.Order_Date = NaT
                                  /\ t.Channel = NaN
                                  /\ t.Customer_Name = NaN
                          /\ ~HasProduct(item)
                                => t.Product_Name = NaN /\ t.Dog_Breed = NaN
                          /\ t.Collection # NaN

\* A join in which one item has an order but no product and another item has
\* neither an order nor a product.
LeftJoinWitness ==
    /\ jout.called
    /\ jout.ok
    /\ \E i, k \in 1..Len(jin.items) :
          /\ HasOrder(jin.items[i])
          /\ ~HasProduct(jin.items[i])
          /\ ~HasOrder(jin.items[k])
          /\ ~HasProduct(jin.items[k])
    /\ \E j \in 1..Len(jout.df.rows) :
          /\ jout.df.rows[j].Channel # NaN
          /\ jout.df.rows[j].Product_Name = NaN

-----------------------------------------------------------------------------
(* Properties of extract_collection_from_sku *)

\* The first two hyphen-separated tokens of a SKU joined by a hyphen, or the
\* SKU itself when it has fewer than two tokens.
FirstTwoSegments(sku) ==
    LET tokens == Split(sku, "-")
    IN IF Len(tokens) >= 2 THEN tokens[1] \o <<"-">> \o tokens[2] ELSE sku

\* C11. Collection derivation: for every SKU string the collection is the
\* first two hyphen-delimited segments of the SKU (whether the SKU has the
\* form WUUF-<3 digits> or not) when the SKU has at least two segments, and
\* the raw SKU otherwise; "WUUF-001-WH-M" gives "WUUF-001", "NOPREFIX-X-Y"
\* gives "NOPREFIX-X" and "" gives "".
CollectionDerivation ==
    skuv.called => skuv.out = FirstTwoSegments(SkuOf(skuv.parts))

-----------------------------------------------------------------------------
(* Properties of the numeric coercion of join_transactions *)

\* The number a source cell stands for, 0 for a cell that is empty or not
\* numeric.
NumberOf(cell) ==
    CASE cell = <<"1">> -> 1
      [] cell = <<"2">> -> 2
      [] cell = <<"7">> -> 7
      [] cell = <<"5", "0">> -> 50
      [] cell = <<"-", "5">> -> 0 - 5
      [] OTHER -> 0

\* Transaction t is the line item `item` with its five numeric fields coerced.
CoercedFrom(t, item) ==
    /\ t.Order_ID = item.Order_ID
    /\ t.SKU = item.SKU
    /\ t.Size = item.Size
    /\ \A c \in numeric_columns : t[c] = NumberOf(item[c])

\* C12. Numeric coercion: in every Transaction produced by join_transactions
\* each of Qty, Unit_Price_THB, Line_Subtotal, COGS_THB and Line_Profit is a
\* number: the value of the source cell, or 0 when the source cell is missing
\* or not numeric, never null; no item is dropped over it and the join does
\* not fail.
NumericCoercion ==
    jout.called =>
        /\ jout.ok
        /\ numeric_columns \subseteq jout.df.cols
        /\ \A j \in 1..Len(jout.df.rows) :
              /\ \A c \in numeric_columns : jout.df.rows[j][c] \in Int
              /\ \E i \in 1..Len(jin.items) : CoercedFrom(jout.df.rows[j], jin.items[i])
        /\ \A i \in 1..Len(jin.items) :
              \E j \in 1..Len(jout.df.rows) : CoercedFrom(jout.df.rows[j], jin.items[i])

\* A join over an item with a non-numeric quantity and a missing price next
\* to an item with a negative price.
NumericCoercionWitness ==
    /\ jout.called
    /\ \E i, k \in 1..Len(jin.items) :
          /\ jin.items[i].Qty = <<"x">>
          /\ jin.items[i].Unit_Price_THB = << >>
          /\ jin.items[k].Unit_Price_THB = <<"-", "5">>
    /\ \E j, l \in 1..Len(jout.df.rows) :
          /\ jout.df.rows[j].Qty = 0
          /\ jout.df.rows[j].Unit_Price_THB = 0
          /\ jout.df.rows[l].Unit_Price_THB = 0 - 5

-----------------------------------------------------------------------------
(* Properties of apply_filters *)

\* The rows apply_filters returned.
Filtered == fout.objs[fout.ref]

\* The last second of 2024-01-05.
DAY1_END == DAY1 + SecondsPerDay - 1

\* A date argument that is absent or a calendar date.
DateArgOk(x) == x \in {NoneText, << >>, T_DAY1}

\* Row `row` meets every criterion of `crit` that is provided, the date
\* criteria being calendar dates.
Satisfies(row, crit) ==
    /\ crit.start_date = T_DAY1 => row.Order_Date # NaT /\ row.Order_Date >= DAY1
    /\ crit.end_date = T_DAY1 => row.Order_Date # NaT /\ row.Order_Date <= DAY1_END
    /\ Truthy(crit.size) => row.Size = crit.size
    /\ Truthy(crit.collection) => row.Collection = crit.collection
    /\ Truthy(crit.breed) => row.Dog_Breed = crit.breed
    /\ Truthy(crit.channel) => row.Channel = crit.channel

\* C13. Filter conjunction: apply_filters returns exactly the transactions of
\* the input, in their order, that satisfy every provided criterion at once
\* (date bounds; exact, case-sensitive equality on size, collection, breed and
\* channel); an absent criterion (None or "") imposes no constraint, so with
\* no criteria the result equals the input.
FilterConjunction ==
    (fout.called /\ DateArgOk(fout.crit.start_date) /\ DateArgOk(fout.crit.end_date))
        => /\ Filtered = SelectSeq(txns, LAMBDA row : Satisfies(row, fout.crit))
           /\ (\A f \in DOMAIN fout.crit : ~Truthy(fout.crit[f])) => Filtered = txns

\* A call with a start date, a size and a channel that keeps one of two rows,
\* the other one differing from the size criterion by case only.
FilterConjunctionWitness ==
    /\ fout.called
    /\ fout.crit.start_date = T_DAY1
    /\ fout.crit.end_date = NoneText
    /\ fout.crit.size = <<"M">>
    /\ fout.crit.channel = T_IG
    /\ Len(txns) = 2
    /\ Len(Filtered) = 1
    /\ \E i \in 1..2 : txns[i].Size = <<"m">> /\ txns[i].Channel = T_IG

\* C14. Inclusive date bounds: startDate = D keeps exactly the dates
\* >= D 00:00:00 and endDate = D exactly the dates <= D 23:59:59, so that
\* startDate = endDate = D returns exactly the transactions dated within
\* [D 00:00:00, D 23:59:59]: a transaction at the end of D is kept, one on the
\* following day is not.
InclusiveDateBounds ==
    (/\ fout.called
     /\ DateArgOk(fout.crit.start_date) /\ DateArgOk(fout.crit.end_date)
     /\ \A f \in {"size", "collection", "breed", "channel"} : ~Truthy(fout.crit[f]))
        => LET lo == fout.crit.start_date = T_DAY1
               hi == fout.crit.end_date = T_DAY1
           IN Filtered =
                 SelectSeq(txns, LAMBDA row :
                    /\ lo => row.Order_Date # NaT /\ row.Order_Date >= DAY1
                    /\ hi => row.Order_Date # NaT /\ row.Order_Date <= DAY1_END)

\* startDate = endDate = D over a row at D 23:59:59 and a row on the next day
\* at 00:00:00: the first is returned alone.
InclusiveDateBoundsWitness ==
    /\ fout.called
    /\ fout.crit.start_date = T_DAY1
    /\ fout.crit.end_date = T_DAY1
    /\ \A f \in {"size", "collection", "breed", "channel"} : ~Truthy(fout.crit[f])
    /\ \E i, k \in 1..Len(txns) :
          /\ txns[i].Order_Date = DAY1_END
          /\ txns[k].Order_Date = DAY1 + SecondsPerDay
    /\ Len(Filtered) = 1
    /\ Filtered[1].Order_Date = DAY1_END

\* The rows the same call returns when made without its start bound, and
\* without its end bound.
WithoutStart(crit) ==
    LET st == apply_filters(txns, NoneText, crit.end_date, crit.size,
                            crit.collection, crit.breed, crit.channel)
    IN st.objs[st.ref]

WithoutEnd(crit) ==
    LET st == apply_filters(txns, crit.start_date, NoneText, crit.size,
                            crit.collection, crit.breed, crit.channel)
    IN st.objs[st.ref]

\* A date argument that is given and is not a date.
NotADate(x) == x \in {T_BADDAY, T_NAT}

\* C16. Lenient date parsing: when the startDate (or endDate) string cannot be
\* parsed as a date, apply_filters does not fail and that bound is a no-op:
\* the result is exactly what the same call without that bound returns, every
\* other provided criterion still being applied.
LenientDateParsing ==
    fout.called =>
        /\ NotADate(fout.crit.start_date) => Filtered = WithoutStart(fout.crit)
        /\ NotADate(fout.crit.end_date) => Filtered = WithoutEnd(fout.crit)

\* C17. apply_filters never mutates its input: whatever the criteria, the
\* caller's transaction set is the same after the call as before it, and the
\* result is an object of its own, not the input.
FilterLeavesInput ==
    [][(~fout.called /\ fout'.called)
          => /\ txns' = txns
             /\ fout'.objs[1] = txns
             /\ fout'.ref # 1]_vars

\* A call without criteria on two rows: the result has the rows of the input
\* and is another object; and the input still has both rows.
FilterLeavesInputWitness ==
    /\ fout.called
    /\ \A f \in DOMAIN fout.crit : ~Truthy(fout.crit[f])
    /\ Len(txns) = 2
    /\ fout.ref # 1
    /\ Filtered = txns
    /\ fout.objs[1] = txns

-----------------------------------------------------------------------------
(* Properties of the handling of null order dates *)

\* The rows of a frame that have an order date.
Dated(rows) == SelectSeq(rows, LAMBDA row : row.Order_Date # NaT)

\* An Orders date cell that is not a date.
BadDateCell(cell) == cell \in {T_BADDAY, T_DAY2, << >>}

\* C15. Null-date policy: a Transaction whose order date is null (the source
\* cell is not a date) is kept by the join; it is left out of the result of
\* apply_filters when a start or end bound is given and out of the groups of
\* daily_sales and monthly_trends; it passes through apply_filters without a
\* date bound and counts in the totals of sales_overview.
NullDatePolicy ==
    /\ jout.called =>
          /\ jout.ok
          /\ \A i \in 1..Len(jin.items) : \A o \in 1..Len(jin.orders) :
                (/\ jin.orders[o].Order_ID = jin.items[i].Order_ID
                 /\ BadDateCell(jin.orders[o].Order_Date))
                => \E j \in 1..Len(jout.df.rows) :
                      /\ jout.df.rows[j].Order_ID = jin.items[i].Order_ID
                      /\ jout.df.rows[j].SKU = jin.items[i].SKU
                      /\ jout.df.rows[j].Customer_Name = jin.orders[o].Customer_Name
                      /\ jout.df.rows[j].Order_Date = NaT
    /\ fout.called =>
          IF Truthy(fout.crit.start_date) \/ Truthy(fout.crit.end_date)
          THEN Filtered = SelectSeq(jout.df.rows, LAMBDA row :
                              /\ row.Order_Date # NaT
                              /\ Truthy(fout.crit.start_date) => row.Order_Date >= DAY1
                              /\ Truthy(fout.crit.end_date) => row.Order_Date <= DAY1_END)
          ELSE Filtered = jout.df.rows
    /\ (agg.called /\ agg.fn = "sales_overview") =>
          /\ agg.value.total_quantity = SumCol(Filtered, "Qty")
          /\ agg.value.total_revenue = 100 * SumCol(Filtered, "Line_Subtotal")
          /\ agg.value.total_orders = nunique(Filtered, "Order_ID")
    /\ (agg.called /\ agg.fn \in {"daily_sales", "monthly_trends"}) =>
          /\ SumCol(agg.value, "quantity") = SumCol(Dated(Filtered), "Qty")
          /\ SumCol(agg.value, "revenue") = 100 * SumCol(Dated(Filtered), "Line_Subtotal")
          /\ (Dated(Filtered) = << >>) = (agg.value = << >>)
          /\ \A k \in 1..Len(agg.value) : agg.value[k].orders > 0

\* A request without date bounds over a join result holding a dated row and a
\* row without a date: the filter returns both and daily_sales groups the
\* dated one only.
NullDatePolicyWitness ==
    /\ agg.called
    /\ agg.fn = "daily_sales"
    /\ ~Truthy(fout.crit.start_date)
    /\ ~Truthy(fout.crit.end_date)
    /\ Len(Filtered) = 2
    /\ Len(Dated(Filtered)) = 1
    /\ Len(agg.value) = 1
    /\ agg.value[1].date = T_DAY1
    /\ agg.value[1].quantity = Dated(Filtered)[1].Qty

-----------------------------------------------------------------------------
(* Properties of the aggregations *)

\* The distinct order ids of a frame.
OrderIds(rows) == {rows[i].Order_ID : i \in 1..Len(rows)}

\* C18. Overview totals: for a non-empty transaction set sales_overview
\* reports total_orders = the number of distinct order_id values, not the
\* number of rows, and average_order_value = total_revenue / total_orders
\* rounded to 2 decimals (the nearest hundredth); with no orders
\* average_order_value is 0.
OverviewTotals ==
    (agg.called /\ agg.fn = "sales_overview") =>
        LET v == agg.value
            n == Cardinality(OrderIds(txns))
        IN /\ v.total_orders = n
           /\ v.total_revenue = 100 * SumCol(txns, "Line_Subtotal")
           /\ n > 0 => /\ 2 * (v.average_order_value * n - v.total_revenue) <= n
                       /\ 2 * (v.total_revenue - v.average_order_value * n) <= n
           /\ n = 0 => v.average_order_value = 0

\* An overview of three rows in two orders, 107 in revenue: 2 orders, 53.50 on
\* average.
OverviewTotalsWitness ==
    /\ agg.called
    /\ agg.fn = "sales_overview"
    /\ Len(txns) = 3
    /\ agg.value.total_orders = 2
    /\ agg.value.total_revenue = 10700
    /\ agg.value.average_order_value = 5350

\* C19. Empty-input totality: every aggregation called on an empty transaction
\* set returns its zero-valued or empty-list result: sales_overview and
\* customer_repeat_rate all-zero records, the ten list-valued functions an
\* empty list.
EmptyInputTotality ==
    (agg.called /\ txns = << >>) =>
        CASE agg.fn = "sales_overview" ->
                agg.value = [total_revenue |-> 0, total_cost |-> 0, total_profit |-> 0,
                             total_orders |-> 0, total_quantity |-> 0,
                             average_order_value |-> 0]
          [] agg.fn = "customer_repeat_rate" ->
                agg.value = [total_customers |-> 0, repeat_customers |-> 0,
                             new_customers |-> 0, repeat_rate |-> 0,
                             average_orders_per_customer |-> 0]
          [] OTHER -> agg.value = << >>

\* customer_repeat_rate called on the empty set.
EmptyInputWitness ==
    /\ agg.called
    /\ txns = << >>
    /\ agg.fn = "customer_repeat_rate"
    /\ agg.value.total_customers = 0
    /\ agg.value.average_orders_per_customer = 0

\* The fixed rank table of sizes; 0 for a size that is not in it.
SizeRank(size) ==
    CASE size = <<"X", "S">> -> 1
      [] size = <<"S">> -> 2
      [] size = <<"M">> -> 3
      [] size = <<"L">> -> 4
      [] size = <<"X", "L">> -> 5
      [] size \in {<<"X", "X", "L">>, <<"2", "X", "L">>} -> 6
      [] size = <<"3", "X", "L">> -> 7
      [] OTHER -> 0

\* The distinct non-null sizes of a frame.
Sizes(rows) == {rows[i].Size : i \in 1..Len(rows)} \ {NaN}

\* C20. Size ordering: sales_by_size returns one entry per distinct non-null
\* size, ordered by the rank table XS=1, S=2, M=3, L=4, XL=5, XXL/2XL=6, 3XL=7
\* whatever the input order (sizes {L, XS, M} give [XS, M, L]); a size that is
\* not in the table comes after every ranked size, and unranked sizes are
\* ordered among themselves by name.
SizeOrdering ==
    (agg.called /\ agg.fn = "sales_by_size") =>
        LET v == agg.value
        IN /\ Len(v) = Cardinality(Sizes(txns))
           /\ {v[k].size : k \in 1..Len(v)} = Sizes(txns)
           /\ \A i, j \in 1..Len(v) :
                 i < j =>
                    IF SizeRank(v[i].size) = 0
                    THEN SizeRank(v[j].size) = 0 /\ TextLt(v[i].size, v[j].size)
                    ELSE SizeRank(v[j].size) = 0 \/ SizeRank(v[i].size) <= SizeRank(v[j].size)
           /\ Sizes(txns) = {<<"L">>, <<"X", "S">>, <<"M">>}
                 => [k \in 1..3 |-> v[k].size] = << <<"X", "S">>, <<"M">>, <<"L">> >>

\* sales_by_size over rows of sizes L, XS and M in that order.
SizeOrderingWitness ==
    /\ agg.called
    /\ agg.fn = "sales_by_size"
    /\ Len(txns) = 3
    /\ [i \in 1..3 |-> txns[i].Size] = << <<"L">>, <<"X", "S">>, <<"M">> >>
    /\ [k \in 1..3 |-> agg.value[k].size] = << <<"X", "S">>, <<"M">>, <<"L">> >>


-----------------------------------------------------------------------------
(* Properties of monthly_trends *)

\* The "YYYY-MM" text of the month a date of TrendRows falls in.
MonthText(t) ==
    IF t < MkDate(2024, 1, 1) THEN <<"2", "0", "2", "3", "-", "1", "2">>
    ELSE IF t < MkDate(2024, 2, 1) THEN <<"2", "0", "2", "4", "-", "0", "1">>
    ELSE IF t < MkDate(2024, 3, 1) THEN <<"2", "0", "2", "4", "-", "0", "2">>
    ELSE <<"2", "0", "2", "4", "-", "0", "3">>

\* g is (curr - prev) / prev * 100 to the nearest hundredth, in hundredths.
IsPctChange(g, curr, prev) ==
    /\ Len(g) = 1
    /\ LET err == g[1] * prev - 10000 * (curr - prev)
           mag == IF prev < 0 THEN 0 - prev ELSE prev
       IN 2 * err <= mag /\ 2 * (0 - err) <= mag

\* C21: monthly_trends returns one entry per month that has a dated row, in
\* chronological order; the first entry has revenue_growth and orders_growth
\* null, and every later entry whose preceding month has a value other than
\* zero has growth (curr - prev) / prev * 100 rounded to 2 decimals.
MonthlyGrowth ==
    (agg.called /\ agg.fn = "monthly_trends") =>
        LET v == agg.value
            dated == SelectSeq(txns, LAMBDA row : row.Order_Date # NaT)
        IN /\ {v[k].month : k \in 1..Len(v)}
                 = {MonthText(dated[i].Order_Date) : i \in 1..Len(dated)}
           /\ \A k \in 1..(Len(v) - 1) : TextLt(v[k].month, v[k + 1].month)
           /\ Len(v) > 0 => v[1].revenue_growth = << >> /\ v[1].orders_growth = << >>
           /\ \A k \in 2..Len(v) :
                 /\ v[k - 1].revenue # 0 =>
                        IsPctChange(v[k].revenue_growth,
                                    v[k].revenue \div 100, v[k - 1].revenue \div 100)
                 /\ v[k - 1].orders # 0 =>
                        IsPctChange(v[k].orders_growth, v[k].orders, v[k - 1].orders)

\* Two months with revenues 1000 then 1500: null, then 50.0.
MonthlyGrowthWitness ==
    /\ agg.called
    /\ agg.fn = "monthly_trends"
    /\ Len(agg.value) = 2
    /\ agg.value[1].revenue = 100000
    /\ agg.value[2].revenue = 150000
    /\ agg.value[1].revenue_growth = << >>
    /\ agg.value[2].revenue_growth = <<5000>>

\* C22: in monthly_trends an entry whose preceding month has revenue zero
\* has revenue_growth null, and an entry whose preceding month has no order
\* has orders_growth null.
ZeroBaseGrowth ==
    (agg.called /\ agg.fn = "monthly_trends") =>
        \A k \in 2..Len(agg.value) :
            /\ agg.value[k - 1].revenue = 0 => agg.value[k].revenue_growth = << >>
            /\ agg.value[k - 1].orders = 0 => agg.value[k].orders_growth = << >>

-----------------------------------------------------------------------------
(* Properties of top_customers *)

\* The revenue of a customer over the rows of the frame, in hundredths.
RevenueOf(customer) ==
    100 * SumCol(SelectSeq(txns, LAMBDA row : row.Customer_Name = customer), "Line_Subtotal")

\* The customers of the frame.
CustomerNames == {txns[i].Customer_Name : i \in 1..Len(txns)} \ {NaN}

\* C23: top_customers(limit) returns min(limit, number of distinct
\* customers) entries of distinct customers with their total revenue, ranked
\* 1, 2, ..., k in revenue-descending order, and no customer left out has
\* more revenue than one returned.
TopCustomersRanked ==
    (agg.called /\ agg.fn = "top_customers") =>
        LET v == agg.value
            n == Cardinality(CustomerNames)
            top == {v[k].customer : k \in 1..Len(v)}
        IN /\ Len(v) = (IF agg.limit < n THEN agg.limit ELSE n)
           /\ top \subseteq CustomerNames
           /\ Cardinality(top) = Len(v)
           /\ \A k \in 1..Len(v) :
                 /\ v[k].rank = k
                 /\ v[k].total_revenue = RevenueOf(v[k].customer)
           /\ \A k \in 1..(Len(v) - 1) : v[k].total_revenue >= v[k + 1].total_revenue
           /\ \A c \in CustomerNames \ top :
                 \A k \in 1..Len(v) : RevenueOf(c) <= v[k].total_revenue

\* Customers with revenues 300, 500 and 100, limit 2: rank 1 for the 500
\* customer, rank 2 for the 300 customer, nothing else.
TopCustomersWitness ==
    /\ agg.called
    /\ agg.fn = "top_customers"
    /\ agg.limit = 2
    /\ [i \in 1..Len(txns) |-> txns[i].Line_Subtotal] = <<300, 500, 100>>
    /\ Cardinality(CustomerNames) = 3
    /\ Len(agg.value) = 2
    /\ agg.value[1].rank = 1
    /\ agg.value[1].customer = T_BOB
    /\ agg.value[1].total_revenue = 50000
    /\ agg.value[2].rank = 2
    /\ agg.value[2].customer = T_ANN
    /\ agg.value[2].total_revenue = 30000

-----------------------------------------------------------------------------
(* Properties of customer_acquisition_by_channel *)

\* The rows of a customer that carry the customer's minimum order date.
EarliestRows(customer) ==
    LET mine == SelectSeq(txns, LAMBDA row : row.Customer_Name = customer /\ row.Order_Date # NaT)
    IN SelectSeq(mine, LAMBDA row : \A i \in 1..Len(mine) : row.Order_Date <= mine[i].Order_Date)

\* The customers whose earliest order came through a channel.
AcquiredBy(channel) ==
    {c \in CustomerNames : \E i \in 1..Len(EarliestRows(c)) : EarliestRows(c)[i].Channel = channel}

\* C24: customer_acquisition_by_channel reports, per channel, the number of
\* customers whose earliest order (minimum order date) came through that
\* channel, whatever the row order, and that number as a percentage of all
\* customers, ordered by count descending.
AcquisitionByEarliestOrder ==
    (agg.called /\ agg.fn = "customer_acquisition_by_channel") =>
        LET v == agg.value
        IN /\ \A k \in 1..Len(v) :
                 /\ v[k].new_customers = Cardinality(AcquiredBy(v[k].channel))
                 /\ v[k].percentage
                       = round2(100 * v[k].new_customers, Cardinality(CustomerNames))
           /\ \A k \in 1..(Len(v) - 1) : v[k].new_customers >= v[k + 1].new_customers

-----------------------------------------------------------------------------
(* Properties of the join's cardinality *)

\* The number of rows of a frame whose key cell equals a value, at least 1.
Fanout(rows, key, value) ==
    LET n == Cardinality({i \in 1..Len(rows) : rows[i][key] = value})
    IN IF n = 0 THEN 1 ELSE n

\* The number of Transactions item i yields.
Multiplicity(i) ==
    Fanout(jin.orders, "Order_ID", jin.items[i].Order_ID)
        * Fanout(jin.products, "SKU", jin.items[i].SKU)

\* The number of Transactions the items before item i yield.
RowsBefore(i) == SumCol([k \in 1..(i - 1) |-> [n |-> Multiplicity(k)]], "n")

UniqueKey(rows, key) ==
    \A i, k \in 1..Len(rows) : rows[i][key] = rows[k][key] => i = k

\* C25: the Transactions of join_transactions are, item by item in the
\* items' order, one block per Order_Items row, the block of an item holding
\* (matching Orders rows, at least 1) x (matching Products rows, at least 1)
\* Transactions that carry that item; with Order_ID unique in Orders and SKU
\* unique in Products there is exactly one Transaction per item, in order.
JoinCardinality ==
    jout.called =>
        /\ jout.ok
        /\ Len(jout.df.rows) = RowsBefore(Len(jin.items) + 1)
        /\ \A i \in 1..Len(jin.items) :
              \A j \in (RowsBefore(i) + 1)..RowsBefore(i + 1) :
                  CarriesItem(jout.df.rows[j], jin.items[i])
        /\ (UniqueKey(jin.orders, "Order_ID") /\ UniqueKey(jin.products, "SKU")) =>
              /\ Len(jout.df.rows) = Len(jin.items)
              /\ \A i \in 1..Len(jin.items) : CarriesItem(jout.df.rows[i], jin.items[i])

\* An item whose Order_ID is on two Orders rows and whose SKU is on two
\* Products rows yields four Transactions, followed by the single
\* Transaction of an item that matches nothing.
JoinCardinalityWitness ==
    /\ jout.called
    /\ jout.ok
    /\ Len(jin.items) = 2
    /\ Multiplicity(1) = 4
    /\ Multiplicity(2) = 1
    /\ Len(jout.df.rows) = 5
    /\ jout.df.rows[1].Channel # jout.df.rows[3].Channel
    /\ jout.df.rows[1].Product_Name # jout.df.rows[2].Product_Name
    /\ jout.df.rows[5].SKU = jin.items[2].SKU

-----------------------------------------------------------------------------
(* Properties of the snapshot's lifetime *)

\* No call stands between line 243 and line 244 of load_transactions.
BetweenCalls == \A r \in Calls : pc[r] # "set_timestamp"

\* C26: between calls the snapshot is unset exactly when the timestamp is
\* unset; once a load has succeeded a snapshot and its timestamp exist, no
\* step of load_transactions or get_cache_info clears either of them, and no
\* call of load_transactions ends by raising.
PopulatedStaysServed ==
    /\ [](BetweenCalls => (cached_data = None <=> cache_timestamp = None))
    /\ [](committed[1] # None => cached_data # None)
    /\ []((committed[1] # None /\ BetweenCalls) => cache_timestamp # None)
    /\ [][/\ cached_data # None => cached_data' # None
          /\ cache_timestamp # None => cache_timestamp' # None
          /\ \A r \in Calls :
                (cached_data # None /\ pc[r] # "done" /\ pc'[r] = "done")
                   => ret'[r].kind # "raise"]_vars

\* After a successful load and the passing of time a refresh failed, and the
\* call was answered from the snapshot, which is still the one that load
\* stored.
PopulatedWitness ==
    /\ committed[1] # None
    /\ cached_data = committed[1]
    /\ cache_timestamp = committed[2]
    /\ now > cache_timestamp
    /\ \E r \in Calls :
          /\ pc[r] = "done"
          /\ args[r].op = "load"
          /\ ret[r].via = "stale"

\* The snapshot is older than CACHE_DURATION_MINUTES.
Expired == cache_timestamp # None /\ now - cache_timestamp >= CACHE_DURATION_MINUTES

\* C27: the timestamp changes only in the last step of a successful refresh,
\* which sets it to the current time, and never decreases; a refresh that
\* fails and is answered from the snapshot leaves it as it was; the clock
\* never goes back, so an expired snapshot stays expired, and every
\* load_transactions(force_refresh=False) call that finds it expired goes on
\* to the loader.
NoNegativeCaching ==
    [][/\ now' >= now
       /\ cache_timestamp' # cache_timestamp =>
             /\ \E r \in Calls : pc[r] = "set_timestamp" /\ pc'[r] = "return"
             /\ cache_timestamp' = now
             /\ cache_timestamp' >= cache_timestamp
       /\ \A r \in Calls :
             /\ Leaves(r, "except") => cache_timestamp' = cache_timestamp
             /\ (pc[r] = "check" /\ pc'[r] # "check" /\ Expired) => pc'[r] = "client"]_vars

\* A failed refresh was answered from the expired snapshot, and the next
\* unforced call has found the snapshot expired and is on its way to the
\* loader.
NoNegativeCachingWitness ==
    /\ cached_data # None
    /\ Expired
    /\ \E r, q \in Calls :
          /\ pc[r] = "done"
          /\ ret[r].via = "stale"
          /\ pc[q] = "client"
          /\ args[q].op = "load"
          /\ ~args[q].force_refresh

-----------------------------------------------------------------------------
(* Algebraic properties of apply_filters *)

\* The frame apply_filters(df, **crit) returns.
FilterOf(df, crit) ==
    LET st == apply_filters(df, crit.start_date, crit.end_date, crit.size,
                            crit.collection, crit.breed, crit.channel)
    IN st.objs[st.ref]

\* The criteria sets that provide at most one criterion.
SingleCriteria ==
    {crit \in Criteria : Cardinality({f \in DOMAIN crit : crit[f] # NoneText}) <= 1}

\* No criterion is provided with different values by the two sets.
Compatible(c, d) ==
    \A f \in DOMAIN c : ~Truthy(c[f]) \/ ~Truthy(d[f]) \/ c[f] = d[f]

\* The criteria either set provides.
CriteriaUnion(c, d) == [f \in DOMAIN c |-> IF Truthy(c[f]) THEN c[f] ELSE d[f]]

\* The rows of a sequence at a set of positions, in the sequence's order.
RowsAt(rows, S) == [k \in 1..Cardinality(S) |-> rows[SortedInts(S)[k]]]

\* C28: apply_filters applied to its own result with the same criteria
\* changes nothing; two criteria sets applied one after the other give the
\* same frame in either order, and the frame one call with their union
\* gives; the result is a sub-list of the input in the input's order.
FilterAlgebra ==
    fout.called =>
        /\ FilterOf(Filtered, fout.crit) = Filtered
        /\ \E S \in SUBSET (1..Len(txns)) : Filtered = RowsAt(txns, S)
        /\ \A d \in SingleCriteria :
              /\ FilterOf(Filtered, d) = FilterOf(FilterOf(txns, d), fout.crit)
              /\ Compatible(fout.crit, d) =>
                    FilterOf(txns, CriteriaUnion(fout.crit, d)) = FilterOf(Filtered, d)

\* Of two rows the call's criteria keep one, which a second criteria set,
\* that alone keeps the other row, then drops: both orders and the union
\* give the empty frame.
FilterAlgebraWitness ==
    /\ fout.called
    /\ Len(txns) = 2
    /\ Filtered = <<txns[1]>>
    /\ \E d \in SingleCriteria :
          /\ Compatible(fout.crit, d)
          /\ FilterOf(txns, d) = <<txns[2]>>
          /\ FilterOf(Filtered, d) = << >>
          /\ FilterOf(txns, CriteriaUnion(fout.crit, d)) = << >>

-----------------------------------------------------------------------------
(* Properties of sales_by_collection and customer_repeat_rate *)

\* The positions of the rows of a collection.
InCollection(collection) == {i \in 1..Len(txns) : txns[i].Collection = collection}

\* C29: no row has a null collection, and sales_by_collection has one entry
\* per collection of the frame; the sums over its entries of quantity,
\* revenue, cost and profit are the totals sales_overview reports for the
\* same frame; the entries are in revenue-descending order; an entry's
\* orders is the number of distinct order ids among its collection's rows.
GroupConservation ==
    (agg.called /\ agg.fn = "sales_by_collection") =>
        LET v == agg.value
            total == sales_overview(txns)
        IN /\ \A i \in 1..Len(txns) : txns[i].Collection # NaN
           /\ {v[k].collection : k \in 1..Len(v)}
                 = {txns[i].Collection : i \in 1..Len(txns)}
           /\ Cardinality({v[k].collection : k \in 1..Len(v)}) = Len(v)
           /\ SumCol(v, "quantity") = total.total_quantity
           /\ SumCol(v, "revenue") = total.total_revenue
           /\ SumCol(v, "cost") = total.total_cost
           /\ SumCol(v, "profit") = total.total_profit
           /\ \A k \in 1..(Len(v) - 1) : v[k].revenue >= v[k + 1].revenue
           /\ \A k \in 1..Len(v) :
                 v[k].orders
                    = Cardinality({txns[i].Order_ID : i \in InCollection(v[k].collection)})

\* Three rows in two collections of different revenue, the two rows of one
\* collection belonging to one order.
GroupConservationWitness ==
    /\ agg.called
    /\ agg.fn = "sales_by_collection"
    /\ Len(txns) = 3
    /\ Len(agg.value) = 2
    /\ agg.value[1].revenue > agg.value[2].revenue
    /\ agg.value[2].revenue > 0
    /\ \E k \in 1..2 :
          /\ Cardinality(InCollection(agg.value[k].collection)) = 2
          /\ agg.value[k].orders = 1

\* The number of distinct order ids on the rows of a customer.
DistinctOrders(customer) ==
    Cardinality({txns[i].Order_ID : i \in {j \in 1..Len(txns) : txns[j].Customer_Name = customer}})

\* C30: customer_repeat_rate reports the number of distinct customers, the
\* number of them with more than 1 distinct order id (repeat) and with
\* exactly 1 (new), which add up to the total, and repeat / total * 100
\* rounded to 2 decimals as repeat_rate, 0 when there is no customer.
RepeatRatePartition ==
    (agg.called /\ agg.fn = "customer_repeat_rate") =>
        LET v == agg.value
        IN /\ v.total_customers = Cardinality(CustomerNames)
           /\ v.repeat_customers = Cardinality({c \in CustomerNames : DistinctOrders(c) > 1})
           /\ v.new_customers = Cardinality({c \in CustomerNames : DistinctOrders(c) = 1})
           /\ v.repeat_customers + v.new_customers = v.total_customers
           /\ v.repeat_rate = (IF v.total_customers = 0 THEN 0
                               ELSE round2(100 * v.repeat_customers, v.total_customers))

\* Two customers on three rows, one with two orders and one with one order:
\* 1 repeat, 1 new, repeat_rate 50.0.
RepeatRateWitness ==
    /\ agg.called
    /\ agg.fn = "customer_repeat_rate"
    /\ Len(txns) = 3
    /\ \E c \in CustomerNames : DistinctOrders(c) = 2
    /\ agg.value.total_customers = 2
    /\ agg.value.repeat_customers = 1
    /\ agg.value.new_customers = 1
    /\ agg.value.repeat_rate = 5000

=============================================================================
